---- MODULE Spec2Model ----
(***************************************************************************)
(* Model of the NCAA wrestling draft tracker's match-line parser           *)
(* (src/ncaa_wrestling_tracker/parsers/match_parser.py).                   *)
(*                                                                         *)
(* A transcript line is a sequence of tokens; the text the code sees is    *)
(* the tokens joined by single spaces.  The regular expressions of the     *)
(* parser are evaluated on the token sequence: every literal of the        *)
(* patterns (" - ", "won ", " over ", " (" ...) starts or ends at a space, *)
(* so on the vocabulary below a match of the pattern in the text is a      *)
(* match on token boundaries.  Points are kept in half points (1.5 is 3).  *)
(* The token HugeRound stands for a run of HugeRoundDigits decimal digits. *)
(* Schools, the seed annotation and the raw text are parsed by the code    *)
(* into fields no property here reads; the event record leaves them out.   *)
(*                                                                         *)
(* Further sections model main (src/ncaa_wrestling_tracker/main.py), the   *)
(* loading, filtering and team metrics of the dashboard (src/app.py,       *)
(* src/app_utils/data_loader.py, src/app_components, src/debug_app.py)     *)
(* and the bracket tracker.  Tables are named by what they hold where only *)
(* their kind matters, and are sequences of rows where their rows are      *)
(* read.  st.error is recorded for the function whose code calls it: a     *)
(* call answered from the data cache runs no code of the cached function.  *)
(***************************************************************************)
EXTENDS Naturals, Integers, Sequences, FiniteSets, TLC

VARIABLES match_text, current_weight, result, DEBUG_LOG, PROBLEM_LOG, pc, calls,
          transcript, line_no, events, run_no, first_run,
          main_pc, main_args, main_ret, invoked, main_failed,
          app_pc, env, session_state, cache, summary_cache, loads, update_button,
          fetches, load_error,
          results_df, team_summary, scorer,
          view,
          tournament, queues, processed, records

\* one run of the parse over a transcript: its lines, the line to parse next,
\* the events collected, the number of the run and what the first run left
runVars == <<transcript, line_no, events, run_no, first_run>>

\* one call of main: the statement it stands at, the keyword arguments of the
\* call, how the call ended, the functions called so far and the stage that failed
mainVars == <<main_pc, main_args, main_ret, invoked, main_failed>>

\* the dashboard: whether data_loader is imported, the package and the files it
\* finds, st.session_state, the st.cache_data entry of fetch_tournament_data
\* and those of calculate_team_summary (the summary cached for a table), the
\* number of script runs and the button of the last one, the calls of
\* fetch_tournament_data so far and the functions that called st.error in the
\* last script run
appVars == <<app_pc, env, session_state, cache, summary_cache, loads, update_button,
             fetches, load_error>>

\* one call of calculate_team_summary: the competitor rows, the team rows made
\* of them and the function that made them
teamVars == <<results_df, team_summary, scorer>>

\* the bracket tracker: the events of a transcript in its order, those still to
\* process in each weight class, those processed and the competitor records
trackerVars == <<tournament, queues, processed, records>>

\* the functions of the dashboard that read tables row by row: the last call
\* of one of them, with what it was given and what it left
viewVars == <<view>>

\* everything outside the parser's own call
pipelineVars == <<runVars, mainVars, appVars, teamVars, trackerVars, viewVars>>

vars == <<match_text, current_weight, result, DEBUG_LOG, PROBLEM_LOG, pc, calls,
          pipelineVars>>

(* ------------------------------ bounds -------------------------------- *)

\* calls of the parser module's functions in one run
MaxCalls == 2
\* round numbers 1..MaxRound appear in the transcript
MaxRound == 2
\* keyword units in a win phrase handed to _parse_win_type
MaxPhraseUnits == 2

(* --------------------------- small helpers ---------------------------- *)

Min(S) == CHOOSE x \in S : \A y \in S : x <= y

Max(S) == CHOOSE x \in S : \A y \in S : x >= y

\* Python's None for an optional integer is the empty sequence, n is <<n>>
NoneVal == <<>>

Some(n) == <<n>>

\* Python's None for current_weight
NoWeight == "None"

(* ----------------------------- vocabulary ----------------------------- *)

RoundTok == <<"1", "2", "3", "4">>

HugeRound == "9..9"

\* number of digits the token HugeRound stands for
HugeRoundDigits == 4301

\* CPython's default limit on the digits int() converts (sys.int_info)
MaxStrDigits == 4300

IsDigits(tok) == tok = HugeRound \/ \E i \in 1..Len(RoundTok) : RoundTok[i] = tok

DigitCount(tok) == IF tok = HugeRound THEN HugeRoundDigits ELSE 1

\* int(round_num) for a token of at most MaxStrDigits digits
IntOf(tok) == CHOOSE i \in 1..Len(RoundTok) : RoundTok[i] = tok

Ordinals == {"1st", "2nd", "3rd", "4th", "5th", "6th", "7th", "8th"}

\* tokens that begin with "("
Opens(tok) == tok \in {"(Iowa)", "(Penn", "(Ohio", "(SV-1", "(TB-1", "(SV-2", "(TB-2"}

\* tokens that hold a ")"
Closes(tok) == tok \in {"(Iowa)", "State)", "4-1)"}

(* ------------------ the patterns, on a token sequence ------------------ *)

\* " over (.*?) \((.*?)\)(.*)" from the token after "over": the loser's name is
\* at least one token, then a token opening "(", then some ")" at or after it
LoserOpenSet(t, q) ==
    {k \in (q + 1)..Len(t) : Opens(t[k]) /\ \E m \in k..Len(t) : Closes(t[m])}

\* "(.*?) over " after "won by " / "won in ": a non-empty phrase, then "over"
OverSet(t, j) ==
    {o \in (j + 1)..(Len(t) - 1) : t[o] = "over" /\ LoserOpenSet(t, o + 1) # {}}

\* "(.*?)won (by|in) " after the winner's school
WonSet(t, c) ==
    {w \in (c + 1)..(Len(t) - 2) :
        t[w] = "won" /\ t[w + 1] \in {"by", "in"} /\ OverSet(t, w + 2) # {}}

\* "\((.*?)\)" of the winner's school, opened at token k
CloseSet(t, k) == {c \in k..Len(t) : Closes(t[c]) /\ WonSet(t, c) # {}}

\* "(.*?) \(" after " - ": a non-empty name, then a token opening "("
SchoolSet(t, p) == {k \in (p + 1)..Len(t) : Opens(t[k]) /\ CloseSet(t, k) # {}}

\* the groups of "... - (.*?) \((.*?)\)(.*?)won (by|in) (.*?) over (.*?) \((.*?)\)(.*)"
\* from the first token p after " - "; lazy groups take the first place that lets
\* the rest of the pattern match
TailGroups(t, p) ==
    LET k == Min(SchoolSet(t, p))
        c == Min(CloseSet(t, k))
        w == Min(WonSet(t, c))
        o == Min(OverSet(t, w + 2))
        l == Min(LoserOpenSet(t, o + 1))
    IN  [winner_name   |-> SubSeq(t, p, k - 1),
         win_type_full |-> SubSeq(t, w + 2, o - 1),
         loser_name    |-> SubSeq(t, o + 1, l - 1)]

\* "won.* over " of the backup pattern: any "over" after "won"
OverSetB(t, w) ==
    {o \in (w + 1)..(Len(t) - 1) : t[o] = "over" /\ LoserOpenSet(t, o + 1) # {}}

WonSetB(t, c) == {w \in (c + 1)..Len(t) : t[w] = "won" /\ OverSetB(t, w) # {}}

CloseSetB(t, k) == {c \in k..Len(t) : Closes(t[c]) /\ WonSetB(t, c) # {}}

SchoolSetB(t, p) == {k \in (p + 1)..Len(t) : Opens(t[k]) /\ CloseSetB(t, k) # {}}

\* the groups of the backup pattern; ".*" is greedy and takes the last "over"
TailGroupsB(t, p) ==
    LET k == Min(SchoolSetB(t, p))
        c == Min(CloseSetB(t, k))
        w == Min(WonSetB(t, c))
        o == Max(OverSetB(t, w))
        l == Min(LoserOpenSet(t, o + 1))
    IN  [winner_name |-> SubSeq(t, p, k - 1),
         loser_name  |-> SubSeq(t, o + 1, l - 1)]

\* "(Champ|Cons)\. Round (\d+) - " at token s
RegularHeadAt(t, s) ==
    /\ s + 4 <= Len(t)
    /\ t[s] \in {"Champ.", "Cons."}
    /\ t[s + 1] = "Round"
    /\ IsDigits(t[s + 2])
    /\ t[s + 3] = "-"

\* re.search(pattern, match_text): the starts of the primary pattern
PrimaryStarts(t) ==
    {s \in 1..Len(t) : RegularHeadAt(t, s) /\ SchoolSet(t, s + 4) # {}}

\* re.search(backup_pattern, match_text)
BackupStarts(t) ==
    {s \in 1..Len(t) : RegularHeadAt(t, s) /\ SchoolSetB(t, s + 4) # {}}

\* group(1) without the dot
BracketOf(tok) == IF tok = "Champ." THEN "Champ" ELSE "Cons"

\* "(1st|...|8th) Place Match" at token i
PlacementAt(t, i) ==
    /\ i + 2 <= Len(t)
    /\ t[i] \in Ordinals
    /\ t[i + 1] = "Place"
    /\ t[i + 2] = "Match"

\* re.search(placement_pattern, match_text)
PlacementSearch(t) == \E i \in 1..Len(t) : PlacementAt(t, i)

\* re.search(placement_pattern_full, match_text): the starts of the full pattern
PlacementStarts(t) ==
    {i \in 1..Len(t) :
        /\ PlacementAt(t, i)
        /\ i + 4 <= Len(t)
        /\ t[i + 3] = "-"
        /\ SchoolSet(t, i + 4) # {}}

(* --------------------------- _parse_win_type --------------------------- *)

\* "w" in text, for a one-word w
HasWord(ws, w) == \E i \in 1..Len(ws) : ws[i] = w

\* "a b" in text
HasPair(ws, a, b) == \E i \in 1..(Len(ws) - 1) : ws[i] = a /\ ws[i + 1] = b

\* text.startswith("a b")
StartsWithPair(ws, a, b) == Len(ws) >= 2 /\ ws[1] = a /\ ws[2] = b

\* " w " in text: the token w with a token on either side
HasSpaced(ws, w) == \E i \in 2..(Len(ws) - 1) : ws[i] = w

\* the tests of the if / elif chain on the win phrase, in the code's order
IsTechFall(p) == HasPair(p, "tech", "fall")

IsMajorDecision(p) == HasPair(p, "major", "decision")

IsFall(p) == (\E x \in {"fall", "pin"} : HasWord(p, x)) /\ ~HasPair(p, "tech", "fall")

IsDefaultOrDQ(p) ==
    \E x \in {"default", "forfeit", "disqualification", "misconduct"} : HasWord(p, x)

IsSuddenVictory(p) ==
    HasPair(p, "sudden", "victory") \/ StartsWithPair(p, "sudden", "victory")

IsTieBreaker(p) == HasPair(p, "tie", "breaker") \/ StartsWithPair(p, "tie", "breaker")

IsDecision(p) == HasWord(p, "decision")

\* RescanMatchText with a bonus for the wins it finds by their marker
RescanMatchTextBonus(t) ==
    IF HasPair(t, "sudden", "victory") \/ HasSpaced(t, "SV-1")
       \/ HasSpaced(t, "SV-2") \/ HasWord(t, "(SV-1")
    THEN [win_type |-> "SV", bonus_points |-> 2]
    ELSE IF HasPair(t, "tie", "breaker") \/ HasSpaced(t, "TB-1")
            \/ HasSpaced(t, "TB-2") \/ HasWord(t, "(TB-1")
    THEN [win_type |-> "TB", bonus_points |-> 2]
    ELSE [win_type |-> "Other", bonus_points |-> 0]

\* the else branch: the whole match text is searched for the markers
RescanMatchText(t) ==
    IF HasPair(t, "sudden", "victory") \/ HasSpaced(t, "SV-1")
       \/ HasSpaced(t, "SV-2") \/ HasWord(t, "(SV-1")
    THEN [win_type |-> "SV", bonus_points |-> 0]
    ELSE IF HasPair(t, "tie", "breaker") \/ HasSpaced(t, "TB-1")
            \/ HasSpaced(t, "TB-2") \/ HasWord(t, "(TB-1")
    THEN [win_type |-> "TB", bonus_points |-> 0]
    ELSE [win_type |-> "Other", bonus_points |-> 0]

\* ParseWinType with the fall test moved in front of the major decision test
ParseWinTypeFallFirst(win_type_full, t) ==
    IF IsTechFall(win_type_full) THEN [win_type |-> "TF", bonus_points |-> 3]
    ELSE IF IsFall(win_type_full) THEN [win_type |-> "Fall", bonus_points |-> 4]
    ELSE IF IsMajorDecision(win_type_full) THEN [win_type |-> "MD", bonus_points |-> 2]
    ELSE IF IsDefaultOrDQ(win_type_full) THEN [win_type |-> "Def/DQ", bonus_points |-> 4]
    ELSE IF IsSuddenVictory(win_type_full) THEN [win_type |-> "SV", bonus_points |-> 0]
    ELSE IF IsTieBreaker(win_type_full) THEN [win_type |-> "TB", bonus_points |-> 0]
    ELSE IF IsDecision(win_type_full) THEN [win_type |-> "Dec", bonus_points |-> 0]
    ELSE RescanMatchText(t)

\* _parse_win_type(win_type_full, match_text): (win_type, bonus_points), the
\* bonus in half points
ParseWinType(win_type_full, t) ==
    IF IsTechFall(win_type_full) THEN [win_type |-> "TF", bonus_points |-> 3]
    ELSE IF IsMajorDecision(win_type_full) THEN [win_type |-> "MD", bonus_points |-> 2]
    ELSE IF IsFall(win_type_full) THEN [win_type |-> "Fall", bonus_points |-> 4]
    ELSE IF IsDefaultOrDQ(win_type_full) THEN [win_type |-> "Def/DQ", bonus_points |-> 4]
    ELSE IF IsSuddenVictory(win_type_full) THEN [win_type |-> "SV", bonus_points |-> 0]
    ELSE IF IsTieBreaker(win_type_full) THEN [win_type |-> "TB", bonus_points |-> 0]
    ELSE IF IsDecision(win_type_full) THEN [win_type |-> "Dec", bonus_points |-> 0]
    ELSE RescanMatchText(t)

(* ----------------------- _parse_placement_match ------------------------ *)

\* what a parser returns and what it appended to the two logs on the way
None == [kind |-> "None"]

Raised(exc) == [kind |-> "raise", exc |-> exc]

Outcome(res, dbg, prb) == [result |-> res, debug |-> dbg, problem |-> prb]

\* PlacementPair taking both places of every ordinal from placement_map
PlacementPairFromMap(placement) ==
    LET placement_num ==
            CASE placement = "1st" -> 1 [] placement = "2nd" -> 2
              [] placement = "3rd" -> 3 [] placement = "4th" -> 4
              [] placement = "5th" -> 5 [] placement = "6th" -> 6
              [] placement = "7th" -> 7 [] OTHER -> 8
    IN  <<Some(placement_num), Some(placement_num + 1)>>

\* (winner_placement, loser_placement) of the ordinal
PlacementPair(placement) ==
    IF placement = "1st" THEN <<Some(1), Some(2)>>
    ELSE IF placement = "3rd" THEN <<Some(3), Some(4)>>
    ELSE IF placement = "5th" THEN <<Some(5), Some(6)>>
    ELSE IF placement = "7th" THEN <<Some(7), Some(8)>>
    ELSE <<NoneVal, NoneVal>>

\* PlacementPoints scoring the match as a championship round
PlacementPointsAsRound(bonus_points) ==
    [advancement_points |-> 2,
     bonus_points       |-> bonus_points,
     total_points       |-> 2 + bonus_points]

\* advancement, bonus and total points of a placement event
PlacementPoints(bonus_points) ==
    [advancement_points |-> 0,
     bonus_points       |-> bonus_points,
     total_points       |-> bonus_points]

ParsePlacementMatch(t, weight) ==
    IF PlacementStarts(t) = {}
    THEN Outcome(None, <<"Failed to parse placement match">>, <<>>)
    ELSE LET i   == Min(PlacementStarts(t))
             g   == TailGroups(t, i + 4)
             pp  == PlacementPair(t[i])
             wt  == ParseWinType(g.win_type_full, t)
             pts == PlacementPoints(wt.bonus_points)
         IN  Outcome([kind               |-> "event",
                      is_placement_match |-> TRUE,
                      placement_match    |-> t[i],
                      winner_name        |-> g.winner_name,
                      winner_placement   |-> pp[1],
                      loser_name         |-> g.loser_name,
                      loser_placement    |-> pp[2],
                      weight             |-> weight,
                      win_type           |-> wt.win_type,
                      win_type_full      |-> g.win_type_full,
                      advancement_points |-> pts.advancement_points,
                      bonus_points       |-> pts.bonus_points,
                      total_points       |-> pts.total_points],
                     <<>>, <<>>)

(* ------------------------ _parse_regular_match ------------------------- *)

\* BackupWinPhrase with another default
BackupWinPhraseFall == <<"fall">>

\* the win phrase the backup pattern assumes
BackupWinPhrase == <<"decision">>

\* AdvancementPoints with the consolation bracket scored as the championship's
AdvancementPointsFlat(bracket) == IF bracket \in {"Champ", "Cons"} THEN 2 ELSE 1

\* NCAA advancement points by bracket, in half points
AdvancementPoints(bracket) == IF bracket = "Champ" THEN 2 ELSE 1

\* total points (advancement + bonus)
TotalPoints(advancement_points, bonus_points) == advancement_points + bonus_points

\* the "(SV-1" / "(TB-1" double check: the win type and phrase it leaves
MarkerOverride(t, wt, phrase) ==
    IF HasWord(t, "(SV-1")
    THEN [win_type |-> "SV", win_type_full |-> <<"sudden", "victory">>,
          problem |-> <<"SV-1 pattern detected">>]
    ELSE IF HasWord(t, "(TB-1")
    THEN [win_type |-> "TB", win_type_full |-> <<"tie", "breaker">>,
          problem |-> <<"TB-1 pattern detected">>]
    ELSE [win_type |-> wt, win_type_full |-> phrase, problem |-> <<>>]

\* int(round_num): raises ValueError beyond the interpreter's digit limit
IntRaises(tok) == DigitCount(tok) > MaxStrDigits

ParseRegularMatch(t, weight) ==
    IF PrimaryStarts(t) = {} /\ BackupStarts(t) = {}
    THEN Outcome(None, <<"Failed to parse with all patterns">>, <<>>)
    ELSE LET primary == PrimaryStarts(t) # {}
             s       == IF primary THEN Min(PrimaryStarts(t)) ELSE Min(BackupStarts(t))
             names   == IF primary
                        THEN LET g == TailGroups(t, s + 4)
                             IN  [winner_name |-> g.winner_name, loser_name |-> g.loser_name]
                        ELSE TailGroupsB(t, s + 4)
             phrase  == IF primary THEN TailGroups(t, s + 4).win_type_full
                        ELSE BackupWinPhrase
             dbg     == IF primary THEN <<>> ELSE <<"Parsed with backup pattern">>
             bracket == BracketOf(t[s])
             adv     == AdvancementPoints(bracket)
             wt      == ParseWinType(phrase, t)
             ov      == MarkerOverride(t, wt.win_type, phrase)
             total   == TotalPoints(adv, wt.bonus_points)
             prb     == ov.problem \o
                        (IF ov.win_type \in {"SV", "TB"} THEN <<"Detected match">> ELSE <<>>)
         IN  IF IntRaises(t[s + 2])
             THEN Outcome(Raised("ValueError"), dbg, prb)
             ELSE Outcome([kind               |-> "event",
                           is_placement_match |-> FALSE,
                           bracket            |-> bracket,
                           round_num          |-> IntOf(t[s + 2]),
                           full_round         |-> <<bracket, "R", t[s + 2]>>,
                           winner_name        |-> names.winner_name,
                           loser_name         |-> names.loser_name,
                           weight             |-> weight,
                           win_type           |-> ov.win_type,
                           win_type_full      |-> ov.win_type_full,
                           advancement_points |-> adv,
                           bonus_points       |-> wt.bonus_points,
                           total_points       |-> total],
                          dbg, prb)

(* ------------------------- parse_match_result -------------------------- *)

\* config.PROBLEM_WRESTLERS
PROBLEM_WRESTLERS == <<"Starocci">>

\* str.lower() on the tokens of the vocabulary: every token that holds a
\* capital letter is listed, the others are their own lower case
Lower(tok) ==
    CASE tok = "Starocci"     -> "starocci"
      [] tok = "STAROCCI"     -> "starocci"
      [] tok = "Smith"        -> "smith"
      [] tok = "John"         -> "john"
      [] tok = "Mike"         -> "mike"
      [] tok = "Jones"        -> "jones"
      [] tok = "Carter"       -> "carter"
      [] tok = "(Iowa)"       -> "(iowa)"
      [] tok = "(Penn"        -> "(penn"
      [] tok = "(Ohio"        -> "(ohio"
      [] tok = "State)"       -> "state)"
      [] tok = "Champ."       -> "champ."
      [] tok = "Cons."        -> "cons."
      [] tok = "Round"        -> "round"
      [] tok = "Place"        -> "place"
      [] tok = "Match"        -> "match"
      [] tok = "Quarterfinal" -> "quarterfinal"
      [] tok = "(SV-1"        -> "(sv-1"
      [] tok = "(TB-1"        -> "(tb-1"
      [] tok = "(SV-2"        -> "(sv-2"
      [] tok = "(TB-2"        -> "(tb-2"
      [] tok = "SV-2"         -> "sv-2"
      [] tok = "TB-2"         -> "tb-2"
      [] OTHER                -> tok

\* wrestler.lower() in match_text.lower()
NameInText(wrestler, t) == \E i \in 1..Len(t) : Lower(t[i]) = Lower(wrestler)

\* the log_problem calls of the PROBLEM_WRESTLERS loop, one per listed name found
RECURSIVE ProblemWrestlerLog(_, _)
ProblemWrestlerLog(ws, t) ==
    IF ws = <<>> THEN <<>>
    ELSE (IF NameInText(Head(ws), t) THEN <<"Found problem wrestler match">> ELSE <<>>)
         \o ProblemWrestlerLog(Tail(ws), t)

ParseMatchResultOf(t, weight) ==
    LET pw == ProblemWrestlerLog(PROBLEM_WRESTLERS, t)
        Placement(o) ==
            Outcome(o.result, <<"Found placement match">> \o o.debug, pw \o o.problem)
        Regular(o) == Outcome(o.result, o.debug, pw \o o.problem)
    IN  IF PlacementSearch(t)
        THEN Placement(ParsePlacementMatch(t, weight))
        ELSE Regular(ParseRegularMatch(t, weight))

(* --------------------------- transcript lines -------------------------- *)

RegularHeads ==
    {<<b, "Round", RoundTok[r], "-">> : b \in {"Champ.", "Cons."}, r \in 1..MaxRound}

PlacementHeads == {<<o, "Place", "Match", "-">> : o \in Ordinals}

HugeHead == <<"Champ.", "Round", HugeRound, "-">>

JunkHead == <<"Quarterfinal", "-">>

Winner == <<"John", "Smith", "(Iowa)">>

Loser == <<"Mike", "Jones", "(Ohio", "State)">>

WonForms == {<<"won", "by">>, <<"won", "in">>, <<"won", "via">>, <<"won">>, <<"beat">>}

MarkerTails ==
    {<<>>, <<"(SV-1", "4-1)">>, <<"(TB-1", "4-1)">>, <<"(SV-2", "4-1)">>,
     <<"(TB-2", "4-1)">>, <<"SV-2", "4-1">>, <<"TB-2", "4-1">>}

\* win phrases as they occur in transcripts, and mixtures of their keywords
SamplePhrases ==
    {<<"decision">>, <<"major", "decision">>, <<"tech", "fall">>, <<"fall">>,
     <<"pin">>, <<"medical", "forfeit">>, <<"injury", "default">>,
     <<"disqualification">>, <<"misconduct">>, <<"sudden", "victory", "-", "1">>,
     <<"tie", "breaker", "-", "1">>, <<"injury">>, <<"major", "decision", "fall">>,
     <<"fall", "sudden", "victory">>, <<"tech", "fall", "major", "decision">>,
     <<"tie", "breaker", "decision">>, <<"over">>}

\* every shape of line: each head, each "won" wording, with and without a
\* phrase, "over" and a trailing marker
ShapeLines ==
    {h \o Winner \o w \o ph \o ov \o Loser \o tl :
        h  \in RegularHeads \cup {HugeHead, JunkHead}
                \cup {<<o, "Place", "Match", "-">> : o \in {"1st", "2nd"}},
        w  \in WonForms,
        ph \in {<<"fall">>, <<>>},
        ov \in {<<"over">>, <<>>},
        tl \in {<<>>, <<"(SV-1", "4-1)">>, <<"(TB-1", "4-1)">>, <<"3rd", "Place", "Match">>}}

\* well-formed lines over the sample phrases and trailing markers
PhraseLines ==
    {h \o Winner \o <<"won", "by">> \o ph \o <<"over">> \o Loser \o tl :
        h  \in {<<"Champ.", "Round", "1", "-">>, <<"Cons.", "Round", "1", "-">>,
                <<"1st", "Place", "Match", "-">>, <<"2nd", "Place", "Match", "-">>},
        ph \in SamplePhrases,
        tl \in MarkerTails}

\* lines naming a listed problem wrestler, and lines with text before the head
ProblemLines ==
    {pre \o h \o <<"Carter", n, "(Penn", "State)">> \o w \o <<"fall", "over">> \o Loser \o tl :
        pre \in {<<>>, <<"125">>},
        h   \in {<<"Champ.", "Round", "1", "-">>, <<"3rd", "Place", "Match", "-">>, JunkHead},
        n   \in {"Starocci", "STAROCCI", "Smith"},
        w   \in {<<"won", "by">>, <<"beat">>},
        tl  \in {<<>>, <<"(SV-1", "4-1)">>}}

\* a placement line for every ordinal
OrdinalLines ==
    {h \o Winner \o <<"won", "by">> \o ph \o <<"over">> \o Loser :
        h \in PlacementHeads, ph \in {<<"major", "decision">>, <<"fall">>}}

Lines == ShapeLines \cup PhraseLines \cup ProblemLines \cup OrdinalLines

\* the (match_text, current_weight) pairs of the calls: every line inside the
\* weight class "125", and the lines of two families before any weight heading
Inputs ==
    {<<t, "125">> : t \in Lines}
    \cup {<<t, NoWeight>> : t \in ProblemLines \cup OrdinalLines}

(* ------------- analyze_win_types and find_specific_wrestlers ----------- *)

\* the text of a line: its words with one blank between them
RECURSIVE Text(_)
Text(t) ==
    IF t = <<>> THEN ""
    ELSE IF Len(t) = 1 THEN t[1]
    ELSE t[1] \o " " \o Text(Tail(t))

\* the words of the vocabulary as sorted() orders them: by code point, so
\* punctuation and digits come before capitals and capitals before small letters
WordOrder ==
    <<"(Iowa)", "(Ohio", "(Penn", "(SV-1", "(SV-2", "(TB-1", "(TB-2", "-", "1", "125",
      "1st", "2", "2nd", "3", "3rd", "4-1", "4-1)", "4th", "5th", "6th", "7th", "8th",
      "9..9", "Carter", "Champ.", "Cons.", "John", "Jones", "Match", "Mike", "Place",
      "Quarterfinal", "Round", "STAROCCI", "SV-2", "Smith", "Starocci", "State)", "TB-2",
      "beat", "breaker", "by", "decision", "default", "disqualification", "fall",
      "forfeit", "in", "injury", "major", "medical", "misconduct", "over", "pin",
      "sudden", "tech", "tie", "via", "victory", "won">>

Rank(w) == CHOOSE i \in 1..Len(WordOrder) : WordOrder[i] = w

\* Text(a) < Text(b): the blank sorts before every character of a word, so
\* the texts compare as the word sequences do
RECURSIVE TextBefore(_, _)
TextBefore(a, b) ==
    IF a = <<>> THEN b # <<>>
    ELSE IF b = <<>> THEN FALSE
    ELSE IF a[1] = b[1] THEN TextBefore(Tail(a), Tail(b))
    ELSE Rank(a[1]) < Rank(b[1])

\* sorted(win_types)
RECURSIVE Sorted(_)
Sorted(S) ==
    IF S = {} THEN <<>>
    ELSE LET first == CHOOSE a \in S : \A b \in S \ {a} : TextBefore(a, b)
         IN  <<first>> \o Sorted(S \ {first})

\* line.find("won by ") and line.find("won in "): the places of "won" with
\* that word and a blank after it
WonStarts(line, w) ==
    {i \in 1..(Len(line) - 2) : line[i] = "won" /\ line[i + 1] = w}

\* win_start, counted in words: the word after the first "won by ", or after
\* the first "won in " when there is no "won by "; 0 for -1
WinStart(line) ==
    IF ~(HasPair(line, "won", "by") \/ HasPair(line, "won", "in")) THEN 0
    ELSE IF WonStarts(line, "by") # {}
         THEN (CHOOSE i \in WonStarts(line, "by") :
                  \A j \in WonStarts(line, "by") : i <= j) + 2
    ELSE IF WonStarts(line, "in") # {}
         THEN (CHOOSE i \in WonStarts(line, "in") :
                  \A j \in WonStarts(line, "in") : i <= j) + 2
    ELSE 0

\* line.find(" over", win_start): the blank before "over" lies at win_start
\* or after it, so at least one word precedes it
OverAfter(line, start) == {j \in (start + 1)..Len(line) : line[j] = "over"}

\* the win types of the lines of a text: line[win_start:win_end].strip()
WinTypes(text) ==
    {SubSeq(text[n], WinStart(text[n]),
            (CHOOSE j \in OverAfter(text[n], WinStart(text[n])) :
                \A k \in OverAfter(text[n], WinStart(text[n])) : j <= k) - 1) :
        n \in {m \in 1..Len(text) :
                  /\ WinStart(text[m]) # 0
                  /\ OverAfter(text[m], WinStart(text[m])) # {}}}

\* the log_problem calls of analyze_win_types(results_text)
AnalyzeWinTypesOf(text) ==
    <<"ALL WIN TYPES FOUND:">>
    \o [i \in 1..Cardinality(WinTypes(text)) |->
           "  - '" \o Text(Sorted(WinTypes(text))[i]) \o "'"]

\* name in line, for a name made of whole words
NameInLine(name, line) ==
    \E i \in 0..(Len(line) - Len(name)) :
        \A k \in 1..Len(name) : line[i + k] = name[k]

\* occurrences: the lines of the text that hold the name, in their order
Occurrences(text, name) == SelectSeq(text, LAMBDA line : NameInLine(name, line))

\* the log_problem calls of find_specific_wrestlers for the names from the
\* n-th on
RECURSIVE SearchFrom(_, _, _)
SearchFrom(text, names, n) ==
    IF n > Len(names) THEN <<>>
    ELSE <<"Wrestler '" \o Text(names[n]) \o "' found in "
             \o ToString(Len(Occurrences(text, names[n]))) \o " lines:">>
         \o [i \in 1..Len(Occurrences(text, names[n])) |->
                "  " \o Text(Occurrences(text, names[n])[i])]
         \o SearchFrom(text, names, n + 1)

\* the log_problem calls of find_specific_wrestlers(results_text, specific_names)
FindSpecificWrestlersOf(text, names) ==
    <<"\nSPECIFIC WRESTLER SEARCH:">> \o SearchFrom(text, names, 1)

\* results texts, as sequences of their lines: one line, two lines with two
\* win types, a line without a phrase before a "won in" line, and a line
\* without "won by" before a placement line
ResultsTexts ==
    {<<<<"Champ.", "Round", "1", "-">> \o Winner \o <<"won", "by", "fall", "over">> \o Loser>>,
     <<<<"Champ.", "Round", "1", "-">> \o Winner \o <<"won", "by", "fall", "over">> \o Loser,
       <<"Cons.", "Round", "1", "-">> \o Winner
           \o <<"won", "by", "tie", "breaker", "-", "1", "over">> \o Loser
           \o <<"(TB-1", "4-1)">>>>,
     <<<<"Champ.", "Round", "1", "-">> \o Winner \o <<"won", "by", "over">> \o Loser,
       <<"Cons.", "Round", "1", "-">> \o Winner \o <<"won", "in", "fall", "over">> \o Loser>>,
     <<<<"Champ.", "Round", "1", "-", "Carter", "Starocci", "(Penn", "State)", "beat",
         "fall", "over">> \o Loser,
       <<"3rd", "Place", "Match", "-">> \o Winner
           \o <<"won", "by", "major", "decision", "over">> \o Loser>>}

\* the name lists the search is asked for
SpecificNames ==
    {<<<<"John", "Smith">>>>, <<<<"Carter", "Starocci">>, <<"Mike", "Jones">>>>}

(* ------------------------------ the parser ----------------------------- *)

Init ==
    /\ match_text = <<>>
    /\ current_weight = NoWeight
    /\ result = None
    /\ DEBUG_LOG = <<>>
    /\ PROBLEM_LOG = <<>>
    /\ pc = "idle"
    /\ calls = 0
    /\ transcript = <<>>
    /\ line_no = 0
    /\ events = <<>>
    /\ run_no = 0
    /\ first_run = [events |-> <<>>, debug |-> <<>>, problem |-> <<>>]
    /\ main_pc = "not_called"
    /\ main_args = {}
    /\ main_ret = [kind |-> "pending"]
    /\ invoked = {}
    /\ main_failed = "none"
    /\ app_pc = "not_imported"
    /\ env = [package |-> FALSE, results_file |-> FALSE, results_readable |-> FALSE,
              draft_csv |-> FALSE, readable |-> FALSE, rows |-> FALSE, columns |-> "owner"]
    /\ session_state = [results_df |-> "absent", round_df |-> "absent",
                        placements_df |-> "absent", team_summary |-> "absent"]
    /\ cache = <<>>
    /\ summary_cache = {}
    /\ loads = 0
    /\ update_button = FALSE
    /\ fetches = <<>>
    /\ load_error = {}
    /\ view = <<>>
    /\ results_df = <<>>
    /\ team_summary = <<>>
    /\ scorer = "none"
    /\ tournament = <<>>
    /\ queues = <<>>
    /\ processed = <<>>
    /\ records = <<>>

\* what parse_match_result does on each input: the function is evaluated once
\* for every pair and looked up by the calls
ParseTable == [in \in Inputs |-> ParseMatchResultOf(in[1], in[2])]

\* one call parse_match_result(match_text, current_weight)
ParseMatchResult ==
    /\ pc = "idle"
    /\ calls < MaxCalls
    /\ \E in \in Inputs :
          LET o == ParseTable[in]
          IN  /\ match_text' = in[1]
              /\ current_weight' = in[2]
              /\ result' = o.result
              /\ DEBUG_LOG' = DEBUG_LOG \o o.debug
              /\ PROBLEM_LOG' = PROBLEM_LOG \o o.problem
    /\ pc' = "parsed"
    /\ calls' = calls + 1
    /\ UNCHANGED pipelineVars

\* the caller takes the event or skips the line, and goes on to the next line;
\* an exception leaves the caller's loop
NextLine ==
    /\ pc = "parsed"
    /\ result.kind # "raise"
    /\ match_text' = <<>>
    /\ current_weight' = NoWeight
    /\ result' = None
    /\ pc' = "idle"
    /\ UNCHANGED <<DEBUG_LOG, PROBLEM_LOG, calls, pipelineVars>>

\* one call analyze_win_types(results_text): it returns nothing and leaves
\* its findings in the problem log
AnalyzeWinTypes ==
    /\ pc = "idle"
    /\ calls < MaxCalls
    /\ \E text \in ResultsTexts :
          PROBLEM_LOG' = PROBLEM_LOG \o AnalyzeWinTypesOf(text)
    /\ calls' = calls + 1
    /\ UNCHANGED <<match_text, current_weight, result, DEBUG_LOG, pc, pipelineVars>>

\* one call find_specific_wrestlers(results_text, specific_names)
FindSpecificWrestlers ==
    /\ pc = "idle"
    /\ calls < MaxCalls
    /\ \E text \in ResultsTexts, names \in SpecificNames :
          PROBLEM_LOG' = PROBLEM_LOG \o FindSpecificWrestlersOf(text, names)
    /\ calls' = calls + 1
    /\ UNCHANGED <<match_text, current_weight, result, DEBUG_LOG, pc, pipelineVars>>

Next == ParseMatchResult \/ NextLine \/ AnalyzeWinTypes \/ FindSpecificWrestlers

Spec == Init /\ [][Next]_vars

(* ----------------- _parse_win_type on its own inputs ------------------- *)

\* the pieces win phrases are built from: the eleven keywords of the
\* classifier and three words that are no keyword by themselves
PhraseUnits ==
    {<<"tech", "fall">>, <<"major", "decision">>, <<"fall">>, <<"pin">>,
     <<"default">>, <<"forfeit">>, <<"disqualification">>, <<"misconduct">>,
     <<"sudden", "victory">>, <<"tie", "breaker">>, <<"decision">>,
     <<"injury">>, <<"tech">>, <<"major">>}

RECURSIVE PhrasesUpTo(_)
PhrasesUpTo(n) ==
    IF n = 0 THEN {<<>>}
    ELSE PhrasesUpTo(n - 1) \cup {p \o u : p \in PhrasesUpTo(n - 1), u \in PhraseUnits}

\* the line a phrase is captured from, as _parse_regular_match passes it on
LineOfPhrase(ph, tl) ==
    <<"Champ.", "Round", "1", "-">> \o Winner \o <<"won", "by">> \o ph \o <<"over">>
    \o Loser \o tl

\* the win_type_full _parse_regular_match passes for that line: the phrase the
\* pattern captured, or "decision" when the line holds no phrase and only the
\* backup pattern matches it
PhraseOfLine(ph) == IF ph = <<>> THEN <<"decision">> ELSE ph

\* one call _parse_win_type(win_type_full, match_text)
ParseWinTypeCall ==
    /\ pc = "idle"
    /\ \E ph \in PhrasesUpTo(MaxPhraseUnits), tl \in MarkerTails :
          LET wt == ParseWinType(PhraseOfLine(ph), LineOfPhrase(ph, tl))
          IN  /\ match_text' = LineOfPhrase(ph, tl)
              /\ result' = [kind          |-> "win_type",
                            win_type_full |-> PhraseOfLine(ph),
                            win_type      |-> wt.win_type,
                            bonus_points  |-> wt.bonus_points]
    /\ pc' = "classified"
    /\ UNCHANGED <<current_weight, DEBUG_LOG, PROBLEM_LOG, calls, pipelineVars>>

\* the caller has taken the pair
ReturnWinType ==
    /\ pc = "classified"
    /\ match_text' = <<>>
    /\ result' = None
    /\ pc' = "idle"
    /\ UNCHANGED <<current_weight, DEBUG_LOG, PROBLEM_LOG, calls, pipelineVars>>

NextWinType == ParseWinTypeCall \/ ReturnWinType

SpecWinType == Init /\ [][NextWinType]_vars

(* ============================== properties ============================= *)

Parsed == pc = "parsed"

IsEvent == Parsed /\ result.kind = "event"

RegularEvent == IsEvent /\ ~result.is_placement_match

PlacementEvent == IsEvent /\ result.is_placement_match

\* C1: a regular event's total is its advancement plus its bonus, and its
\* advancement is 1.0 (2 half points) for a Champ line and 0.5 (1) for a Cons
\* line, whatever the phrase, the round and the pattern that matched
C1_RegularPoints ==
    RegularEvent =>
        /\ result.total_points = result.advancement_points + result.bonus_points
        /\ result.bracket \in {"Champ", "Cons"}
        /\ (result.bracket = "Champ") <=> HasWord(match_text, "Champ.")
        /\ result.bracket = "Champ" => result.advancement_points = 2
        /\ result.bracket = "Cons" => result.advancement_points = 1

\* scenario B: a consolation round 2 win by fall scores 0.5 + 2.0
C1_Witness ==
    /\ RegularEvent
    /\ result.bracket = "Cons"
    /\ result.round_num = 2
    /\ result.win_type = "Fall"
    /\ result.bonus_points = 4
    /\ result.total_points = 5

\* C2: a placement event has no advancement points and its total is its bonus
C2_PlacementPoints ==
    PlacementEvent =>
        /\ result.advancement_points = 0
        /\ result.total_points = result.bonus_points

\* scenario C: a 1st place match won by major decision scores 1.0 in all
C2_Witness ==
    /\ PlacementEvent
    /\ result.placement_match = "1st"
    /\ result.win_type = "MD"
    /\ result.bonus_points = 2
    /\ result.total_points = 2

\* the classification table of C3: the keywords of each rule, in order
WinTypeRules ==
    <<[keys |-> {<<"tech", "fall">>}, win_type |-> "TF", bonus |-> 3],
      [keys |-> {<<"major", "decision">>}, win_type |-> "MD", bonus |-> 2],
      [keys |-> {<<"fall">>, <<"pin">>}, win_type |-> "Fall", bonus |-> 4],
      [keys |-> {<<"default">>, <<"forfeit">>, <<"disqualification">>, <<"misconduct">>},
       win_type |-> "Def/DQ", bonus |-> 4],
      [keys |-> {<<"sudden", "victory">>}, win_type |-> "SV", bonus |-> 0],
      [keys |-> {<<"tie", "breaker">>}, win_type |-> "TB", bonus |-> 0],
      [keys |-> {<<"decision">>}, win_type |-> "Dec", bonus |-> 0]>>

\* the words u occur in p, next to each other and in order
ContainsUnit(p, u) ==
    \E i \in 0..(Len(p) - Len(u)) : SubSeq(p, i + 1, i + Len(u)) = u

RuleHits(p) ==
    {i \in 1..Len(WinTypeRules) : \E u \in WinTypeRules[i].keys : ContainsUnit(p, u)}

\* C3: _parse_win_type answers with the first rule of the table that the
\* phrase matches, so an earlier rule wins over every later one
C3_FirstRuleWins ==
    (pc = "classified" /\ RuleHits(result.win_type_full) # {}) =>
        LET r == WinTypeRules[Min(RuleHits(result.win_type_full))]
        IN  result.win_type = r.win_type /\ result.bonus_points = r.bonus

\* a phrase holding both "major decision" and "fall" is a major decision
C3_Witness ==
    /\ pc = "classified"
    /\ ContainsUnit(result.win_type_full, <<"major", "decision">>)
    /\ ContainsUnit(result.win_type_full, <<"fall">>)
    /\ ~ContainsUnit(result.win_type_full, <<"tech", "fall">>)
    /\ result.win_type = "MD"
    /\ result.bonus_points = 2

\* C4: every event of a line holding "(SV-1" is a sudden victory, and every
\* event of a line holding "(TB-1" and no "(SV-1" is a tie breaker
C4_MarkerForcesWinType ==
    IsEvent =>
        /\ HasWord(match_text, "(SV-1") => result.win_type = "SV"
        /\ (HasWord(match_text, "(TB-1") /\ ~HasWord(match_text, "(SV-1"))
               => result.win_type = "TB"

\* a 1st place match won by fall with a trailing "(SV-1 4-1)" stays a fall
C4_Witness ==
    /\ PlacementEvent
    /\ HasWord(match_text, "(SV-1")
    /\ result.win_type = "Fall"

\* C5: an event that is a sudden victory or a tie breaker carries no bonus, so
\* its total is its advancement
C5_NoBonusForSVTB ==
    (IsEvent /\ result.win_type \in {"SV", "TB"}) =>
        /\ result.bonus_points = 0
        /\ result.total_points = result.advancement_points

\* a round won by fall with a trailing "(SV-1 4-1)" is a sudden victory that
\* keeps the fall's 2.0 bonus
C5_Witness ==
    /\ RegularEvent
    /\ HasWord(match_text, "(SV-1")
    /\ result.win_type = "SV"
    /\ result.bonus_points = 4
    /\ result.total_points = result.advancement_points + 4

\* the pairs of C6
ExpectedPlacements(ordinal) ==
    CASE ordinal = "1st" -> <<Some(1), Some(2)>>
      [] ordinal = "3rd" -> <<Some(3), Some(4)>>
      [] ordinal = "5th" -> <<Some(5), Some(6)>>
      [] ordinal = "7th" -> <<Some(7), Some(8)>>
      [] OTHER           -> <<NoneVal, NoneVal>>

\* C6: a placement event carries the pair of its line's ordinal, (1,2), (3,4),
\* (5,6) or (7,8), and no placement at all for 2nd, 4th, 6th and 8th; a
\* well-formed placement line of any ordinal yields an event
C6_PlacementPairs ==
    /\ PlacementEvent =>
          /\ HasWord(match_text, result.placement_match)
          /\ <<result.winner_placement, result.loser_placement>>
                 = ExpectedPlacements(result.placement_match)
    /\ (Parsed /\ match_text \in OrdinalLines) =>
          /\ PlacementEvent
          /\ result.placement_match = match_text[1]

\* a 4th place match is parsed and leaves both placements unknown
C6_Witness ==
    /\ PlacementEvent
    /\ result.placement_match = "4th"
    /\ result.winner_placement = NoneVal
    /\ result.loser_placement = NoneVal

\* only the backup pattern matches the line
BackupOnly(t) == PrimaryStarts(t) = {} /\ BackupStarts(t) # {}

NoMarker(t) == ~HasWord(t, "(SV-1") /\ ~HasWord(t, "(TB-1")

\* C7: in _parse_regular_match the backup pattern is used exactly when the
\* primary pattern fails and the backup matches; its event, on a line with no
\* "(SV-1" / "(TB-1", is a decision with no bonus and the bracket's advancement
\* as total; when both patterns fail the result is None
C7_BackupPattern ==
    [][(pc' = "parsed" /\ ~PlacementSearch(match_text')) =>
          /\ (DEBUG_LOG' = Append(DEBUG_LOG, "Parsed with backup pattern"))
                 <=> BackupOnly(match_text')
          /\ PrimaryStarts(match_text') # {} => DEBUG_LOG' = DEBUG_LOG
          /\ (BackupOnly(match_text') /\ NoMarker(match_text') /\ result'.kind = "event") =>
                 /\ result'.win_type = "Dec"
                 /\ result'.bonus_points = 0
                 /\ result'.total_points = result'.advancement_points
                 /\ result'.advancement_points = IF result'.bracket = "Champ" THEN 2 ELSE 1
          /\ (PrimaryStarts(match_text') = {} /\ BackupStarts(match_text') = {}) =>
                 result' = None]_vars

\* "won via fall over" is parsed by the backup pattern as a decision
C7_Witness ==
    /\ RegularEvent
    /\ BackupOnly(match_text)
    /\ NoMarker(match_text)
    /\ HasPair(match_text, "via", "fall")
    /\ result.win_type = "Dec"
    /\ result.bonus_points = 0
    /\ result.total_points = result.advancement_points

\* C8: the result is None only for a line that matches neither the placement
\* pattern nor the primary nor the backup pattern
C8_NoneOnlyWhenNoGrammarMatches ==
    (Parsed /\ result = None) =>
        /\ PlacementStarts(match_text) = {}
        /\ PrimaryStarts(match_text) = {}
        /\ BackupStarts(match_text) = {}

\* a line of the regular grammar that ends in "3rd Place Match" is dropped
C8_Witness ==
    /\ Parsed
    /\ result = None
    /\ PrimaryStarts(match_text) # {}
    /\ PlacementSearch(match_text)
    /\ PlacementStarts(match_text) = {}

\* C9: every call ends with an event or None, never with an exception
C9_NeverRaises == Parsed => result.kind \in {"event", "None"}

\* a round number of more digits than int() converts ends the call in ValueError
C9_Witness ==
    /\ Parsed
    /\ result = Raised("ValueError")
    /\ HasWord(match_text, HugeRound)

\* C10: a call that returns None adds exactly one entry to the two logs together
C10_OneDiagnosticPerFailure ==
    [][(pc' = "parsed" /\ result' = None) =>
          Len(DEBUG_LOG') + Len(PROBLEM_LOG') = Len(DEBUG_LOG) + Len(PROBLEM_LOG) + 1]_vars

\* the first call, on a placement line the placement pattern rejects, leaves two
\* entries in the debug log
C10_Witness ==
    /\ Parsed
    /\ calls = 1
    /\ result = None
    /\ PlacementSearch(match_text)
    /\ DEBUG_LOG = <<"Found placement match", "Failed to parse placement match">>
    /\ PROBLEM_LOG = <<>>

\* C11: a call that returns an event of win type SV or TB, regular or placement,
\* records at least one problem-log entry for its line
C11_SVTBDiagnosed ==
    [][(pc' = "parsed" /\ result'.kind = "event" /\ result'.win_type \in {"SV", "TB"}) =>
          Len(PROBLEM_LOG') > Len(PROBLEM_LOG)]_vars

\* a 1st place match won in sudden victory is returned as SV with an empty
\* problem log
C11_Witness ==
    /\ PlacementEvent
    /\ calls = 1
    /\ result.placement_match = "1st"
    /\ result.win_type = "SV"
    /\ PROBLEM_LOG = <<>>

(* ----------------- runs of the parse over a transcript ----------------- *)

MaxLines == 2

MaxRuns == 2

\* the weight class heading the lines of a run stand under
RunWeight == "125"

\* lines of a run: the same phrases under a regular and a placement head, with
\* and without a trailing marker, and a line no pattern matches
RunLines ==
    {h \o Winner \o <<"won", "by">> \o ph \o <<"over">> \o Loser \o tl :
        h  \in {<<"Champ.", "Round", "1", "-">>, <<"1st", "Place", "Match", "-">>},
        ph \in {<<"fall">>, <<"injury">>},
        tl \in {<<>>, <<"(SV-1", "4-1)">>, <<"SV-2", "4-1">>}}
    \cup {JunkHead \o Winner \o <<"beat">> \o Loser}

Transcripts == UNION {[1..n -> RunLines] : n \in 1..MaxLines}

\* the win phrase the pattern that matched the line captured (the backup
\* pattern captures none and the code takes its default)
CapturedPhrase(t) ==
    IF PlacementSearch(t) THEN TailGroups(t, Min(PlacementStarts(t)) + 4).win_type_full
    ELSE IF PrimaryStarts(t) # {}
    THEN TailGroups(t, Min(PrimaryStarts(t)) + 4).win_type_full
    ELSE BackupWinPhrase

\* the parse is started over the transcript: the first time on a transcript of
\* the input, later on the same one
StartRun ==
    /\ pc \in {"idle", "ended"}
    /\ run_no < MaxRuns
    /\ IF run_no = 0 THEN transcript' \in Transcripts ELSE transcript' = transcript
    /\ line_no' = 1
    /\ events' = <<>>
    /\ run_no' = run_no + 1
    /\ pc' = "running"
    /\ UNCHANGED <<match_text, current_weight, result, DEBUG_LOG, PROBLEM_LOG, calls,
                   first_run, mainVars, appVars, teamVars, trackerVars, viewVars>>


\* the next line goes through parse_match_result; an event is collected, None
\* is skipped and an exception ends the run
ParseLine ==
    /\ pc = "running"
    /\ line_no <= Len(transcript)
    /\ LET t == transcript[line_no]
           o == ParseMatchResultOf(t, RunWeight)
       IN  /\ match_text' = t
           /\ current_weight' = RunWeight
           /\ result' = o.result
           /\ DEBUG_LOG' = DEBUG_LOG \o o.debug
           /\ PROBLEM_LOG' = PROBLEM_LOG \o o.problem
           /\ events' = IF o.result.kind = "event"
                        THEN Append(events, [line |-> t, event |-> o.result])
                        ELSE events
           /\ pc' = IF o.result.kind = "raise" THEN "raised" ELSE "running"
    /\ line_no' = line_no + 1
    /\ UNCHANGED <<calls, transcript, run_no, first_run, mainVars, appVars, teamVars, trackerVars,
                   viewVars>>

\* the last line is done; what the first run leaves is kept for comparison
EndRun ==
    /\ pc = "running"
    /\ line_no > Len(transcript)
    /\ first_run' = IF run_no = 1
                    THEN [events |-> events, debug |-> DEBUG_LOG, problem |-> PROBLEM_LOG]
                    ELSE first_run
    /\ pc' = "ended"
    /\ UNCHANGED <<match_text, current_weight, result, DEBUG_LOG, PROBLEM_LOG, calls,
                   transcript, line_no, events, run_no, mainVars, appVars, teamVars, trackerVars,
                   viewVars>>

NextRuns == StartRun \/ ParseLine \/ EndRun

SpecRuns == Init /\ [][NextRuns]_vars

\* the events of the current run taken two at a time
EventPairs == {<<events[i], events[j]>> : i, j \in 1..Len(events)}

SamePhrase(a, b) == CapturedPhrase(a.line) = CapturedPhrase(b.line)

\* a line holding one of the two markers of the double check
Marked(a) == HasWord(a.line, "(SV-1") \/ HasWord(a.line, "(TB-1")

\* the double check of _parse_regular_match replaced the win type of the
\* event: it is made on regular lines alone
Overridden(a) == ~a.event.is_placement_match /\ Marked(a)

\* C12 as stated: two events with the same captured win phrase have the same
\* win type and the same bonus, whatever else their lines hold
C12_PhraseAlone ==
    \A p \in EventPairs :
        SamePhrase(p[1], p[2]) =>
            /\ p[1].event.win_type = p[2].event.win_type
            /\ p[1].event.bonus_points = p[2].event.bonus_points

\* C12 amended: two events with the same captured win phrase have the same
\* bonus, whatever else their lines hold, and the same win type too when the
\* phrase matches one of the seven phrase rules and neither line is a regular
\* line holding "(SV-1" or "(TB-1"
C12_PhraseAloneAmended ==
    \A p \in EventPairs :
        SamePhrase(p[1], p[2]) =>
            /\ p[1].event.bonus_points = p[2].event.bonus_points
            /\ (/\ RuleHits(CapturedPhrase(p[1].line)) # {}
                /\ ~Overridden(p[1])
                /\ ~Overridden(p[2]))
                   => p[1].event.win_type = p[2].event.win_type

\* a regular line won by fall and a placement line won by fall that ends in
\* "(SV-1 4-1)" are both falls with the fall bonus
C12_Witness ==
    /\ Len(events) = 2
    /\ CapturedPhrase(events[1].line) = <<"fall">>
    /\ CapturedPhrase(events[2].line) = <<"fall">>
    /\ ~events[1].event.is_placement_match
    /\ ~Marked(events[1])
    /\ events[2].event.is_placement_match
    /\ Marked(events[2])
    /\ events[1].event.win_type = "Fall"
    /\ events[2].event.win_type = "Fall"
    /\ events[1].event.bonus_points = 4
    /\ events[2].event.bonus_points = 4

\* C13: a call of parse_match_result changes nothing outside its return value:
\* neither the debug log nor the problem log of the process grows
C13_NoGlobalLog ==
    [][pc' = "parsed" => (DEBUG_LOG' = DEBUG_LOG /\ PROBLEM_LOG' = PROBLEM_LOG)]_vars

\* the first call, on a regular line ending in "(TB-1 4-1)", returns an event
\* that carries no diagnostics and leaves two entries in the problem log
C13_Witness ==
    /\ RegularEvent
    /\ calls = 1
    /\ HasWord(match_text, "(TB-1")
    /\ result.win_type = "TB"
    /\ DEBUG_LOG = <<>>
    /\ PROBLEM_LOG = <<"TB-1 pattern detected", "Detected match">>

\* C14: a later run over the same transcript ends with the events and with the
\* diagnostics the first run ended with
C14_RerunIdentical ==
    (pc = "ended" /\ run_no >= 2) =>
        /\ events = first_run.events
        /\ DEBUG_LOG = first_run.debug
        /\ PROBLEM_LOG = first_run.problem

\* the second run over a transcript with a line no pattern matches collects the
\* same events and ends with every entry of the debug log twice
C14_Witness ==
    /\ pc = "ended"
    /\ run_no = 2
    /\ events = first_run.events
    /\ first_run.debug # <<>>
    /\ DEBUG_LOG = first_run.debug \o first_run.debug
    /\ PROBLEM_LOG = first_run.problem \o first_run.problem
    /\ \E i \in 1..Len(transcript) : ParseMatchResultOf(transcript[i], RunWeight).result = None

(* --------------------------------- main -------------------------------- *)

\* the parser's call state, which main and the dashboard leave alone
parserVars == <<match_text, current_weight, result, DEBUG_LOG, PROBLEM_LOG, pc, calls>>

\* the keyword parameters main is defined with
MainParameters == {}

\* the value of every return statement of main and of falling off its end
MainResult == NoneVal

Returned(value) == [kind |-> "return", value |-> value]

\* what a caller of main(**args) gets: TypeError for a keyword main does not
\* define, MainResult otherwise (whatever stage the run got to)
MainCall(args) ==
    IF args \subseteq MainParameters THEN Returned(MainResult) ELSE Raised("TypeError")

\* the keyword arguments main is called with: none from the command line,
\* return_results from the dashboard
MainCallers == {{}, {"return_results"}}

\* a call outside every try block raised: the exception leaves main
RaiseFrom(stage) ==
    /\ main_failed' = stage
    /\ main_pc' = "raised"
    /\ main_ret' = Raised("Exception")

\* the functions main calls one after the other outside a try block, before
\* the stage next: all of them return, or one raises after those before it
Unguarded(names, next) ==
    \/ /\ invoked' = invoked \cup {names[i] : i \in 1..Len(names)}
       /\ main_pc' = next
       /\ UNCHANGED <<main_ret, main_failed>>
    \/ \E k \in 1..Len(names) :
          /\ invoked' = invoked \cup {names[i] : i \in 1..k}
          /\ RaiseFrom(names[k])

\* main(**args) is called: a call that does not fit the signature raises at
\* once, the others create the output directory. This is the entry of the
\* process started as `python main.py`, which serves no dashboard
CallMain ==
    /\ main_pc = "not_called"
    /\ app_pc = "not_imported"
    /\ \E args \in MainCallers :
          /\ main_args' = args
          /\ IF MainCall(args).kind = "raise"
             THEN /\ main_pc' = "raised"
                  /\ main_ret' = MainCall(args)
                  /\ invoked' = invoked
                  /\ main_failed' = main_failed
             ELSE Unguarded(<<"create_output_directory">>, "validate")
    /\ UNCHANGED <<parserVars, runVars, appVars, teamVars, trackerVars, viewVars>>

\* a guarded stage failed: main prints the error and returns
ReturnAfter(stage) ==
    /\ main_failed' = stage
    /\ main_pc' = "returned"
    /\ main_ret' = MainCall(main_args)

\* if not validate_input_files(): return; then the copies of the inputs,
\* all three calls outside a try block
ValidateInputFiles ==
    /\ main_pc = "validate"
    /\ \/ Unguarded(<<"validate_input_files", "save_input_copy", "save_draft_copy">>,
                    "load_draft")
       \/ /\ invoked' = invoked \cup {"validate_input_files"}
          /\ ReturnAfter("validate_input_files")
    /\ UNCHANGED <<main_args, parserVars, runVars, appVars, teamVars, trackerVars, viewVars>>

\* load_draft_data in its try block
LoadDraftData ==
    /\ main_pc = "load_draft"
    /\ invoked' = invoked \cup {"load_draft_data"}
    /\ \E ok \in BOOLEAN :
          IF ok
          THEN main_pc' = "load_results" /\ UNCHANGED <<main_ret, main_failed>>
          ELSE ReturnAfter("load_draft_data")
    /\ UNCHANGED <<main_args, parserVars, runVars, appVars, teamVars, trackerVars, viewVars>>

\* load_results_text in its try block
LoadResultsText ==
    /\ main_pc = "load_results"
    /\ invoked' = invoked \cup {"load_results_text"}
    /\ \E ok \in BOOLEAN :
          IF ok
          THEN main_pc' = "build_lookup" /\ UNCHANGED <<main_ret, main_failed>>
          ELSE ReturnAfter("load_results_text")
    /\ UNCHANGED <<main_args, parserVars, runVars, appVars, teamVars, trackerVars, viewVars>>

\* build_wrestler_lookup(drafted_wrestlers), outside a try block
BuildWrestlerLookup ==
    /\ main_pc = "build_lookup"
    /\ Unguarded(<<"build_wrestler_lookup">>, "parse")
    /\ UNCHANGED <<main_args, parserVars, runVars, appVars, teamVars, trackerVars, viewVars>>

\* parse_wrestling_results in its try block, then calculate_team_points
\* outside of it
ParseWrestlingResults ==
    /\ main_pc = "parse"
    /\ \/ /\ invoked' = invoked \cup {"parse_wrestling_results", "calculate_team_points"}
          /\ main_pc' = "report"
          /\ UNCHANGED <<main_ret, main_failed>>
       \/ /\ invoked' = invoked \cup {"parse_wrestling_results"}
          /\ ReturnAfter("parse_wrestling_results")
       \/ /\ invoked' = invoked \cup {"parse_wrestling_results", "calculate_team_points"}
          /\ RaiseFrom("calculate_team_points")
    /\ UNCHANGED <<main_args, parserVars, runVars, appVars, teamVars, trackerVars, viewVars>>

\* generate_detailed_report and save_text_report in their try block
GenerateReport ==
    /\ main_pc = "report"
    /\ \/ /\ invoked' = invoked \cup {"generate_detailed_report", "save_text_report"}
          /\ main_pc' = "save"
          /\ UNCHANGED <<main_ret, main_failed>>
       \/ /\ invoked' = invoked \cup {"generate_detailed_report"}
          /\ ReturnAfter("generate_detailed_report")
       \/ /\ invoked' = invoked \cup {"generate_detailed_report", "save_text_report"}
          /\ ReturnAfter("save_text_report")
    /\ UNCHANGED <<main_args, parserVars, runVars, appVars, teamVars, trackerVars, viewVars>>

\* save_results_to_csv in its try block
SaveResults ==
    /\ main_pc = "save"
    /\ invoked' = invoked \cup {"save_results_to_csv"}
    /\ \E ok \in BOOLEAN :
          IF ok
          THEN main_pc' = "save_logs" /\ UNCHANGED <<main_ret, main_failed>>
          ELSE ReturnAfter("save_results_to_csv")
    /\ UNCHANGED <<main_args, parserVars, runVars, appVars, teamVars, trackerVars, viewVars>>

\* the calls after the last try block
TailCalls ==
    <<"save_debug_log", "save_problem_cases", "create_readme", "generate_summary_report">>

\* save_debug_log, save_problem_cases, the README and the summary, then
\* debug_wrestler when sys.argv asks for it with --debug-wrestler <name>; main
\* ends, by falling off its end or with the exception of one of these calls
SaveLogs ==
    /\ main_pc = "save_logs"
    /\ \E debug \in BOOLEAN :
          LET names == IF debug THEN Append(TailCalls, "debug_wrestler") ELSE TailCalls
          IN  \/ /\ invoked' = invoked \cup {names[i] : i \in 1..Len(names)}
                 /\ main_pc' = "returned"
                 /\ main_ret' = MainCall(main_args)
                 /\ main_failed' = main_failed
              \/ \E k \in 1..Len(names) :
                    /\ invoked' = invoked \cup {names[i] : i \in 1..k}
                    /\ RaiseFrom(names[k])
    /\ UNCHANGED <<main_args, parserVars, runVars, appVars, teamVars, trackerVars, viewVars>>

MainStep ==
    \/ CallMain
    \/ ValidateInputFiles
    \/ LoadDraftData
    \/ LoadResultsText
    \/ BuildWrestlerLookup
    \/ ParseWrestlingResults
    \/ GenerateReport
    \/ SaveResults
    \/ SaveLogs

(* ------------------------------ dashboard ------------------------------ *)

MaxLoads == 2

\* tables are named by what they hold
PackageTables == <<"results_df", "round_df", "placements_df">>

EmptyTables == <<"empty", "empty", "empty">>

\* the header of a draft CSV with rows, as calculate_team_summary reads it:
\* an owner column; a column it sums (total_points, placement_points, or the
\* two advancement or the two bonus columns) and no owner column; neither
DraftColumns == {"owner", "points", "neither"}

\* where the dashboard may run: with or without the package, with or without
\* the results file, which may be there and not readable, and the draft CSV
\* missing, there but not readable, readable without rows under its header,
\* or readable with rows under one of the headers. What the code does not
\* read is the same in all of them: the header of a CSV without rows, the
\* header where the package is there (calculate_team_summary reads it in the
\* fallback alone), and the draft CSV where the results file is missing. The
\* dashboard never opens the results file (the call of main raises on its
\* arguments before main opens a file), so the unreadable one is kept
\* without the package, beside a draft CSV with rows and an owner column
Environments ==
    {e \in [package : BOOLEAN, results_file : BOOLEAN, results_readable : BOOLEAN,
            draft_csv : BOOLEAN, readable : BOOLEAN, rows : BOOLEAN,
            columns : DraftColumns] :
        /\ e.results_readable => e.results_file
        /\ (e.results_file /\ ~e.results_readable) =>
               (~e.package /\ e.rows /\ e.columns = "owner")
        /\ e.readable => e.draft_csv
        /\ e.rows => e.readable
        /\ ~e.rows => e.columns = "owner"
        /\ e.package => e.columns = "owner"
        /\ ~e.results_file => (e.rows /\ e.columns = "owner")}

\* draft_df = pd.read_csv(config.DRAFT_CSV)
DraftTable(e) ==
    IF ~e.rows THEN "draft_df without rows"
    ELSE CASE e.columns = "owner"   -> "draft_df"
           [] e.columns = "points"  -> "draft_df with points, without owner"
           [] e.columns = "neither" -> "draft_df without owner"

\* df.empty: the table without columns and the draft table without rows
Empty(df) == df \in {"empty", "draft_df without rows"}

\* parse_data_files_directly(): three empty tables when a file is missing or
\* reading the draft CSV fails, otherwise the table read from the draft CSV
\* and two empty ones; of the results file it tests os.path.exists alone
ParseDataFilesDirectly(e) ==
    IF ~e.results_file THEN EmptyTables
    ELSE IF ~e.draft_csv THEN EmptyTables
    ELSE IF ~e.readable THEN EmptyTables
    ELSE <<DraftTable(e), "empty", "empty">>

\* results_df, round_df, placements_df = main(return_results=True): the triple,
\* or the exception of the call or of unpacking what is no triple
UnpackMain(r) ==
    IF r.kind = "raise" THEN r
    ELSE IF Len(r.value) # 3 THEN Raised("TypeError")
    ELSE Returned(r.value)

\* st.error in parse_data_files_directly: a file is missing or reading the
\* draft CSV failed
DirectError(e) == ~e.results_file \/ ~e.draft_csv \/ ~e.readable

\* the package call of fetch_tournament_data and of app.py
PackageCall == UnpackMain(MainCall({"return_results"}))

\* fetch_tournament_data with no handler around the package call
FetchTournamentDataUnguarded(e) ==
    IF e.package
    THEN IF PackageCall.kind = "raise" THEN PackageCall
         ELSE IF ~Empty(PackageCall.value[1]) THEN PackageCall
         ELSE Returned(ParseDataFilesDirectly(e))
    ELSE Returned(ParseDataFilesDirectly(e))

\* what a call of fetch_tournament_data() gets when nothing is cached: the
\* triple of the package, or that of parse_data_files_directly when there is
\* no package, when its call raised or when its results are empty
FetchTournamentData(e) ==
    IF e.package
    THEN IF PackageCall.kind = "raise" THEN Returned(ParseDataFilesDirectly(e))
         ELSE IF ~Empty(PackageCall.value[1]) THEN PackageCall
         ELSE Returned(ParseDataFilesDirectly(e))
    ELSE Returned(ParseDataFilesDirectly(e))

\* st.error during that call: the package call raised, or the direct parse
\* it fell back to found no file it could read
FetchError(e) ==
    IF e.package /\ PackageCall.kind = "return" /\ ~Empty(PackageCall.value[1])
    THEN FALSE
    ELSE (e.package /\ PackageCall.kind = "raise") \/ DirectError(e)

\* the functions that call st.error while the body of fetch_tournament_data
\* runs: its own handler, and the direct parse it falls back to
FetchErrors(e) ==
    IF ~FetchError(e) THEN {}
    ELSE (IF e.package /\ PackageCall.kind = "raise" THEN {"fetch_tournament_data"} ELSE {})
         \cup (IF DirectError(e) THEN {"parse_data_files_directly"} ELSE {})

\* the body of calculate_team_summary(results_df) with PACKAGE_AVAILABLE =
\* package: the table it may return, and whether its except branch called
\* st.error before returning pd.DataFrame(). Without the package
\* groupby('owner') raises KeyError on a table with a column to sum and no
\* owner column, and a table with neither gives pd.DataFrame(index=[]), which
\* is the empty table. With the package calculate_team_points, which is not
\* among the sources, is called on the draft table: it may return or raise
TeamSummaryOf(df, package) ==
    IF Empty(df) THEN {[summary |-> "empty", error |-> FALSE]}
    ELSE IF df = "results_df"
    THEN {[summary |-> "team_summary of results_df", error |-> FALSE]}
    ELSE IF package
    THEN {[summary |-> "team_summary of " \o df, error |-> FALSE],
          [summary |-> "empty", error |-> TRUE]}
    ELSE CASE df = "draft_df" ->
                {[summary |-> "team_summary of draft_df", error |-> FALSE]}
           [] df = "draft_df with points, without owner" ->
                {[summary |-> "empty", error |-> TRUE]}
           [] df = "draft_df without owner" ->
                {[summary |-> "empty", error |-> FALSE]}

\* a call calculate_team_summary(df): the cached summary when there is one,
\* and then no code of the function runs; what the body gives otherwise
CalculateTeamSummaryCached(df, package, cached) ==
    IF \E c \in cached : c.df = df
    THEN {[summary |-> c.summary, error |-> FALSE] : c \in {d \in cached : d.df = df}}
    ELSE TeamSummaryOf(df, package)

\* the stores of load_or_process_data without that of team_summary
StoredWithoutSummary(tables, summary) ==
    [results_df |-> tables[1], round_df |-> tables[2], placements_df |-> tables[3],
     team_summary |-> "absent"]

\* the four keys of st.session_state
Stored(tables, summary) ==
    [results_df |-> tables[1], round_df |-> tables[2], placements_df |-> tables[3],
     team_summary |-> summary]

\* st.session_state of a session that has stored nothing
NoSession ==
    [results_df |-> "absent", round_df |-> "absent", placements_df |-> "absent",
     team_summary |-> "absent"]

\* the except branch of load_or_process_data: four empty tables where
\* results_df is not stored, nothing otherwise
AfterException(state) ==
    IF state.results_df = "absent" THEN Stored(EmptyTables, "empty") ELSE state

\* the cache that never drops its entry
KeptCache(button, c) == c

\* if update_button: st.cache_data.clear(), which drops the entries of every
\* cached function
ClearedCache(button, c) == IF button THEN <<>> ELSE c

\* the entries of calculate_team_summary after that
ClearedSummaries(button, c) == IF button THEN {} ELSE c

\* import of app_utils.data_loader: PACKAGE_AVAILABLE and the configured
\* paths. This is the start of the streamlit process, where main runs only as
\* the package call of the loaders
ImportDataLoader ==
    /\ app_pc = "not_imported"
    /\ main_pc = "not_called"
    /\ env' \in Environments
    /\ app_pc' = "imported"
    /\ UNCHANGED <<session_state, cache, summary_cache, loads, update_button, fetches,
                   load_error, parserVars, runVars, mainVars, teamVars, trackerVars, viewVars>>

\* between two script runs an input file is written, removed or made unreadable
FilesChange ==
    /\ app_pc = "imported"
    /\ loads < MaxLoads
    /\ \E e \in Environments :
          /\ e.package = env.package
          /\ e # env
          /\ env' = e
    /\ UNCHANGED <<app_pc, session_state, cache, summary_cache, loads, update_button,
                   fetches, load_error, parserVars, runVars, mainVars, teamVars, trackerVars, viewVars>>

\* a browser opens a new session: its st.session_state is empty, the
\* st.cache_data entries are those of the server
NewSession ==
    /\ app_pc = "imported"
    /\ loads < MaxLoads
    /\ session_state # NoSession
    /\ session_state' = NoSession
    /\ UNCHANGED <<app_pc, env, cache, summary_cache, loads, update_button, fetches,
                   load_error, parserVars, runVars, mainVars, teamVars, trackerVars, viewVars>>

\* @st.cache_data(ttl=3600): an hour after it was written an entry of
\* fetch_tournament_data or of calculate_team_summary is no longer used
CacheExpires ==
    /\ app_pc = "imported"
    /\ loads < MaxLoads
    /\ \/ /\ cache # <<>>
          /\ cache' = <<>>
          /\ UNCHANGED summary_cache
       \/ /\ \E c \in summary_cache : summary_cache' = summary_cache \ {c}
          /\ UNCHANGED cache
    /\ UNCHANGED <<app_pc, env, session_state, loads, update_button, fetches, load_error,
                   parserVars, runVars, mainVars, teamVars, trackerVars, viewVars>>

\* data_loader.load_or_process_data(update_button): one run of the script;
\* load_error holds the functions that called st.error in the run
LoadOrProcessData ==
    /\ app_pc = "imported"
    /\ loads < MaxLoads
    /\ Len(fetches) < MaxLoads
    /\ loads' = loads + 1
    /\ \E button \in BOOLEAN :
          /\ update_button' = button
          /\ IF button \/ session_state.results_df = "absent"
             THEN LET cleared == ClearedCache(button, cache)
                      kept    == ClearedSummaries(button, summary_cache)
                      hit     == cleared # <<>>
                      fetched == IF hit THEN Returned(cleared[1])
                                 ELSE FetchTournamentData(env)
                      errors  == IF hit THEN {} ELSE FetchErrors(env)
                  IN  /\ fetches' = Append(fetches, [caller  |-> "load_or_process_data",
                                                     cached  |-> hit,
                                                     outcome |-> fetched,
                                                     error   |-> errors # {}])
                      /\ IF fetched.kind = "return"
                         THEN \E s \in CalculateTeamSummaryCached(
                                           fetched.value[1], env.package, kept) :
                                 /\ cache' = Some(fetched.value)
                                 /\ summary_cache' =
                                       kept \cup {[df      |-> fetched.value[1],
                                                    summary |-> s.summary]}
                                 /\ session_state' = Stored(fetched.value, s.summary)
                                 /\ load_error' =
                                       errors
                                       \cup (IF s.error THEN {"calculate_team_summary"}
                                             ELSE {})
                                       \cup (IF button /\ Empty(fetched.value[1])
                                             THEN {"load_or_process_data"} ELSE {})
                         ELSE /\ cache' = cleared
                              /\ summary_cache' = kept
                              /\ session_state' = AfterException(session_state)
                              /\ load_error' =
                                    IF button THEN {"load_or_process_data"} ELSE {}
             ELSE /\ load_error' = {}
                  /\ UNCHANGED <<cache, summary_cache, session_state, fetches>>
    /\ UNCHANGED <<app_pc, env, parserVars, runVars, mainVars, teamVars, trackerVars, viewVars>>

\* debug_app.py, "Test Data Loading": fetch_tournament_data() called on its
\* own; the tables go to the page and the cache, none to st.session_state
TestDataLoading ==
    /\ app_pc = "imported"
    /\ loads < MaxLoads
    /\ Len(fetches) < MaxLoads
    /\ LET hit     == cache # <<>>
           fetched == IF hit THEN Returned(cache[1]) ELSE FetchTournamentData(env)
           errors  == IF hit THEN {} ELSE FetchErrors(env)
       IN  /\ fetches' = Append(fetches, [caller  |-> "debug_app",
                                          cached  |-> hit,
                                          outcome |-> fetched,
                                          error   |-> errors # {}])
           /\ IF fetched.kind = "return"
              THEN /\ cache' = Some(fetched.value)
                   /\ load_error' =
                         errors \cup (IF \E i \in 1..3 : Empty(fetched.value[i])
                                      THEN {"debug_app"} ELSE {})
              ELSE /\ cache' = cache
                   /\ load_error' = {"debug_app"}
    /\ UNCHANGED <<app_pc, env, session_state, summary_cache, loads, update_button,
                   parserVars, runVars, mainVars, teamVars, trackerVars, viewVars>>

\* app.py load_or_process_data(): the script run of the dashboard that calls
\* main itself; it only starts where the package can be imported
AppLoadOrProcessData ==
    /\ app_pc = "imported"
    /\ env.package
    /\ loads < MaxLoads
    /\ loads' = loads + 1
    /\ \E button \in BOOLEAN :
          /\ update_button' = button
          /\ IF button \/ session_state.results_df = "absent"
             THEN IF PackageCall.kind = "return"
                  THEN /\ session_state' =
                             Stored(PackageCall.value,
                                    IF Empty(PackageCall.value[1]) THEN "empty"
                                    ELSE "team_summary of " \o PackageCall.value[1])
                       /\ load_error' = {}
                  ELSE /\ session_state' = AfterException(session_state)
                       /\ load_error' = IF button THEN {"load_or_process_data"} ELSE {}
             ELSE /\ load_error' = {}
                  /\ UNCHANGED session_state
    /\ UNCHANGED <<app_pc, env, cache, summary_cache, fetches, parserVars, runVars,
                   mainVars, teamVars, trackerVars, viewVars>>

NextApp ==
    \/ MainStep
    \/ ImportDataLoader
    \/ FilesChange
    \/ NewSession
    \/ CacheExpires
    \/ LoadOrProcessData
    \/ TestDataLoading
    \/ AppLoadOrProcessData

SpecApp == Init /\ [][NextApp]_vars

\* C15: a run of main in which validation or the loading of the roster or of
\* the results text failed has called neither build_wrestler_lookup nor
\* parse_wrestling_results, and ends otherwise than a run without failure does
C15_InputFailureIsHard ==
    (main_pc \in {"returned", "raised"}
     /\ main_failed \in {"validate_input_files", "load_draft_data", "load_results_text"}) =>
        /\ "build_wrestler_lookup" \notin invoked
        /\ "parse_wrestling_results" \notin invoked
        /\ main_ret # MainCall({})

\* main has returned None after load_draft_data raised, before any parsing
C15_Witness ==
    /\ main_pc = "returned"
    /\ main_failed = "load_draft_data"
    /\ "load_results_text" \notin invoked
    /\ "build_wrestler_lookup" \notin invoked
    /\ "parse_wrestling_results" \notin invoked
    /\ main_ret = Returned(NoneVal)

\* C16: a call main(return_results=True) returns the package's three tables,
\* and where the package and readable input files are there the tables
\* fetch_tournament_data returns are those
C16_MainReturnsTables ==
    /\ (main_pc \in {"returned", "raised"} /\ "return_results" \in main_args) =>
           (main_ret.kind = "return" /\ main_ret.value = PackageTables)
    /\ (cache # <<>> /\ env.package /\ env.results_file /\ env.draft_csv /\ env.readable) =>
           cache[1] = PackageTables

\* with the package and both files there, fetch_tournament_data has returned
\* the draft table of the direct-file fallback in the place of results_df
C16_Witness ==
    /\ env.package
    /\ env.results_file /\ env.draft_csv /\ env.readable /\ env.rows
    /\ MainCall({"return_results"}) = Raised("TypeError")
    /\ cache = Some(<<"draft_df", "empty", "empty">>)
    /\ session_state.results_df = "draft_df"

(* ------------------------ calculate_team_summary ----------------------- *)

MaxRows == 2

MaxPoints == 2

\* the owner column of a row nobody drafted (a missing value)
NaN == "NaN"

Owners == {"Alice", "Bob"}

\* competitor rows: an owner or none, and the total points in half points
Rows == [owner : Owners \cup {NaN}, total_points : 0..MaxPoints]

\* results tables of up to MaxRows rows
ResultTables == UNION {[1..n -> Rows] : n \in 0..MaxRows}

\* sum of the total_points of the rows of df whose owner is o
RECURSIVE PointsOf(_, _)
PointsOf(df, o) ==
    IF df = <<>> THEN 0
    ELSE (IF Head(df).owner = o THEN Head(df).total_points ELSE 0) + PointsOf(Tail(df), o)

\* results_df['owner'].unique(): every value of the column, the missing one too
Unique(df) == {df[i].owner : i \in 1..Len(df)}

\* GroupBySum with the rows of the missing owner kept as a group of their own
GroupBySumKeepNaN(df) == [o \in Unique(df) |-> PointsOf(df, o)]

\* results_df.groupby('owner')['total_points'].sum(): groupby drops the rows
\* whose key is missing
GroupBySum(df) == [o \in Unique(df) \ {NaN} |-> PointsOf(df, o)]

\* the fallback of calculate_team_summary: one row per value of the owner
\* column, the group sums aligned on it, what stays missing filled with 0
FallbackSummary(df) ==
    [o \in Unique(df) |->
        IF o \in DOMAIN GroupBySum(df) THEN GroupBySum(df)[o] ELSE 0]

\* scorer.calculate_team_points(results_df): one row per owner, unowned
\* competitors left out
CalculateTeamPoints(df) == [o \in Unique(df) \ {NaN} |-> PointsOf(df, o)]

\* calculate_team_summary(results_df) with PACKAGE_AVAILABLE = package
CalculateTeamSummary(df, package) ==
    IF df = <<>> THEN <<>>
    ELSE IF package THEN CalculateTeamPoints(df)
    ELSE FallbackSummary(df)

\* one call of calculate_team_summary on a results table
CalculateTeamSummaryCall ==
    /\ scorer = "none"
    /\ UNCHANGED <<trackerVars, viewVars>>
    /\ \E df \in ResultTables, package \in BOOLEAN :
          /\ results_df' = df
          /\ scorer' = IF package THEN "calculate_team_points" ELSE "fallback"
          /\ team_summary' = CalculateTeamSummary(df, package)
    /\ UNCHANGED <<parserVars, runVars, mainVars, appVars, viewVars>>

SpecTeams == Init /\ [][CalculateTeamSummaryCall]_vars

\* sum of the values of a table column f over the rows S
RECURSIVE SumOver(_, _)
SumOver(f, S) ==
    IF S = {} THEN 0
    ELSE LET x == CHOOSE y \in S : TRUE IN f[x] + SumOver(f, S \ {x})

\* sum of total_points over the competitor rows that have an owner
OwnedPoints(df) == SumOver([i \in 1..Len(df) |-> df[i].total_points],
                           {i \in 1..Len(df) : df[i].owner # NaN})

\* C17: the total_points of the team rows add up to the total_points of the
\* competitor rows that have an owner, and no team row holds points of a row
\* without owner
C17_Conservation ==
    scorer # "none" =>
        /\ SumOver(team_summary, DOMAIN team_summary) = OwnedPoints(results_df)
        /\ \A o \in DOMAIN team_summary :
               team_summary[o] = (IF o = NaN THEN 0 ELSE PointsOf(results_df, o))

\* the fallback on a row of Alice's and a row without owner, both with points:
\* Alice's team row has her points, the row of the missing owner has none
C17_Witness ==
    /\ scorer = "fallback"
    /\ Len(results_df) = 2
    /\ results_df[1] = [owner |-> "Alice", total_points |-> 2]
    /\ results_df[2] = [owner |-> NaN, total_points |-> 1]
    /\ DOMAIN team_summary = {"Alice", NaN}
    /\ team_summary["Alice"] = 2
    /\ team_summary[NaN] = 0

(* --------------------------- bracket tracker --------------------------- *)

MaxEvents == 3

Weights == {"125", "133"}

\* lines of a weight class: a championship round, a consolation round and the
\* final, won by either of two wrestlers
TrackerLines ==
    {h \o p[1] \o <<"won", "by", "fall", "over">> \o p[2] :
        h \in {<<"Champ.", "Round", "1", "-">>, <<"Cons.", "Round", "1", "-">>,
               <<"1st", "Place", "Match", "-">>},
        p \in {<<Winner, Loser>>, <<Loser, Winner>>}}

\* the events the parser makes of these lines under each weight heading
TrackerEvents ==
    {ParseMatchResultOf(t, w).result : t \in TrackerLines, w \in Weights}

\* transcripts of up to MaxEvents events
Tournaments == UNION {[1..n -> TrackerEvents] : n \in 0..MaxEvents}

\* the events of one weight class, in the order of the transcript
RECURSIVE EventsOf(_, _)
EventsOf(evs, w) ==
    IF evs = <<>> THEN <<>>
    ELSE (IF Head(evs).weight = w THEN <<Head(evs)>> ELSE <<>>) \o EventsOf(Tail(evs), w)

\* Identity with the name alone, whatever the weight class
IdentityByName(name, weight) == <<name, "any">>

\* a competitor is a name inside a weight class
Identity(name, weight) == <<name, weight>>

\* the record a competitor starts with
NewRecord ==
    [champ_wins |-> 0, cons_wins |-> 0, advancement |-> 0, bonus |-> 0, total |-> 0,
     placement |-> NoneVal, grid |-> <<>>]

RecordOf(recs, id) == IF id \in DOMAIN recs THEN recs[id] ELSE NewRecord

\* the records with those of the winner and the loser of an event replaced
WithBoth(recs, e, rw, rl) ==
    LET w == Identity(e.winner_name, e.weight)
        l == Identity(e.loser_name, e.weight)
    IN  [id \in DOMAIN recs \cup {w, l} |->
            IF id = w THEN rw ELSE IF id = l THEN rl ELSE recs[id]]

\* TrackRegular with the advancement points credited to the loser as well
TrackRegularBothSides(recs, e) ==
    LET rw == RecordOf(recs, Identity(e.winner_name, e.weight))
        rl == RecordOf(recs, Identity(e.loser_name, e.weight))
    IN  WithBoth(recs, e,
            [rw EXCEPT !.champ_wins = @ + (IF e.bracket = "Champ" THEN 1 ELSE 0),
                       !.cons_wins = @ + (IF e.bracket = "Cons" THEN 1 ELSE 0),
                       !.advancement = @ + e.advancement_points,
                       !.bonus = @ + e.bonus_points,
                       !.total = @ + e.total_points,
                       !.grid = Append(@, <<e.full_round, "W">>)],
            [rl EXCEPT !.advancement = @ + e.advancement_points,
                       !.grid = Append(@, <<e.full_round, "L">>)])

\* a regular event: "W" and "L" in the grid at the event's round, the winner's
\* win counter of the bracket and the winner's point totals; nothing else for
\* the loser
TrackRegular(recs, e) ==
    LET rw == RecordOf(recs, Identity(e.winner_name, e.weight))
        rl == RecordOf(recs, Identity(e.loser_name, e.weight))
    IN  WithBoth(recs, e,
            [rw EXCEPT !.champ_wins = @ + (IF e.bracket = "Champ" THEN 1 ELSE 0),
                       !.cons_wins = @ + (IF e.bracket = "Cons" THEN 1 ELSE 0),
                       !.advancement = @ + e.advancement_points,
                       !.bonus = @ + e.bonus_points,
                       !.total = @ + e.total_points,
                       !.grid = Append(@, <<e.full_round, "W">>)],
            [rl EXCEPT !.grid = Append(@, <<e.full_round, "L">>)])

\* TrackPlacement with the final counted as a championship win
TrackPlacementAsWin(recs, e) ==
    LET rw == RecordOf(recs, Identity(e.winner_name, e.weight))
        rl == RecordOf(recs, Identity(e.loser_name, e.weight))
    IN  WithBoth(recs, e,
            [rw EXCEPT !.placement = e.winner_placement,
                       !.champ_wins = @ + 1,
                       !.bonus = @ + e.bonus_points,
                       !.total = @ + e.total_points],
            [rl EXCEPT !.placement = e.loser_placement])

\* a placement event: the final placement of both sides from the event's pair,
\* and the bonus points, without advancement, in the winner's totals
TrackPlacement(recs, e) ==
    LET rw == RecordOf(recs, Identity(e.winner_name, e.weight))
        rl == RecordOf(recs, Identity(e.loser_name, e.weight))
    IN  WithBoth(recs, e,
            [rw EXCEPT !.placement = e.winner_placement,
                       !.bonus = @ + e.bonus_points,
                       !.total = @ + e.total_points],
            [rl EXCEPT !.placement = e.loser_placement])

Track(recs, e) ==
    IF e.is_placement_match THEN TrackPlacement(recs, e) ELSE TrackRegular(recs, e)

\* the records after the events evs, processed in their order
RECURSIVE TrackAll(_, _)
TrackAll(recs, evs) ==
    IF evs = <<>> THEN recs ELSE TrackAll(Track(recs, Head(evs)), Tail(evs))

\* the events of a transcript are handed over, each weight class with its own
TrackerStart ==
    /\ tournament = <<>>
    /\ processed = <<>>
    /\ tournament' \in Tournaments \ {<<>>}
    /\ queues' = [w \in Weights |-> EventsOf(tournament', w)]
    /\ UNCHANGED <<processed, records, parserVars, runVars, mainVars, appVars, teamVars,
                   viewVars>>

\* the next event of some weight class is processed
ProcessEvent ==
    /\ tournament # <<>>
    /\ \E w \in Weights :
          /\ queues[w] # <<>>
          /\ records' = Track(records, Head(queues[w]))
          /\ processed' = Append(processed, Head(queues[w]))
          /\ queues' = [queues EXCEPT ![w] = Tail(@)]
    /\ UNCHANGED <<tournament, parserVars, runVars, mainVars, appVars, teamVars, viewVars>>

NextTracker == TrackerStart \/ ProcessEvent

SpecTracker == Init /\ [][NextTracker]_vars

\* every event processed so far is a regular one
AllRegular == \A i \in 1..Len(processed) : ~processed[i].is_placement_match

\* the regular events of bracket b processed so far that id won
Won(id, b) ==
    {i \in 1..Len(processed) :
        /\ ~processed[i].is_placement_match
        /\ processed[i].bracket = b
        /\ Identity(processed[i].winner_name, processed[i].weight) = id}

\* the events processed so far that name id
Naming(id) ==
    {i \in 1..Len(processed) :
        id \in {Identity(processed[i].winner_name, processed[i].weight),
                Identity(processed[i].loser_name, processed[i].weight)}}

\* C18: after regular events only, a competitor's championship and consolation
\* win counters are the numbers of Champ and Cons events they won, and their
\* advancement and bonus totals are the sums over the events they won: nothing
\* comes from an event they lost
C18_WinnerOnly ==
    AllRegular =>
        \A id \in DOMAIN records :
            LET won == Won(id, "Champ") \cup Won(id, "Cons")
            IN  /\ records[id].champ_wins = Cardinality(Won(id, "Champ"))
                /\ records[id].cons_wins = Cardinality(Won(id, "Cons"))
                /\ records[id].advancement =
                       SumOver([i \in 1..Len(processed) |-> processed[i].advancement_points], won)
                /\ records[id].bonus =
                       SumOver([i \in 1..Len(processed) |-> processed[i].bonus_points], won)

\* John Smith won a championship round by fall and then lost a consolation
\* round at 125: one championship win, 1.0 + 2.0 points, two grid entries
C18_Witness ==
    /\ AllRegular
    /\ Len(processed) = 2
    /\ processed[1].weight = "125" /\ processed[2].weight = "125"
    /\ processed[1].bracket = "Champ" /\ processed[1].winner_name = <<"John", "Smith">>
    /\ processed[2].bracket = "Cons" /\ processed[2].loser_name = <<"John", "Smith">>
    /\ LET r == records[Identity(<<"John", "Smith">>, "125")]
       IN  /\ r.champ_wins = 1 /\ r.cons_wins = 0
           /\ r.advancement = 2 /\ r.bonus = 4 /\ r.total = 6
           /\ r.grid = <<(<<<<"Champ", "R", "1">>, "W">>), (<<<<"Cons", "R", "1">>, "L">>)>>

\* a step that processes one more event, and that event
Processing == Len(processed') = Len(processed) + 1

Latest == processed'[Len(processed')]

\* C19: a final placement is set only for a competitor named by a placement
\* event already processed; the step that processes a placement event sets the
\* winner's and the loser's final placement to the event's pair and changes no
\* advancement total and no win counter
C19_PlacementOnly ==
    [][/\ \A id \in DOMAIN records' :
              records'[id].placement # NoneVal =>
                  \E i \in 1..Len(processed') :
                      /\ processed'[i].is_placement_match
                      /\ id \in {Identity(processed'[i].winner_name, processed'[i].weight),
                                 Identity(processed'[i].loser_name, processed'[i].weight)}
       /\ (Processing /\ Latest.is_placement_match) =>
              /\ records'[Identity(Latest.winner_name, Latest.weight)].placement
                     = Latest.winner_placement
              /\ records'[Identity(Latest.loser_name, Latest.weight)].placement
                     = Latest.loser_placement
              /\ \A id \in DOMAIN records' :
                     /\ records'[id].advancement = RecordOf(records, id).advancement
                     /\ records'[id].champ_wins = RecordOf(records, id).champ_wins
                     /\ records'[id].cons_wins = RecordOf(records, id).cons_wins]_vars

\* after a championship round and the final at 133, both won by Mike Jones, he
\* is placed 1st with one championship win and John Smith is placed 2nd
C19_Witness ==
    /\ Len(processed) = 2
    /\ ~processed[1].is_placement_match
    /\ processed[2].is_placement_match
    /\ processed[2].weight = "133"
    /\ LET w == records[Identity(<<"Mike", "Jones">>, "133")]
           l == records[Identity(<<"John", "Smith">>, "133")]
       IN  /\ w.placement = Some(1) /\ l.placement = Some(2)
           /\ w.champ_wins = 1 /\ w.advancement = 2 /\ w.bonus = 8
           /\ l.champ_wins = 0 /\ l.advancement = 0 /\ l.bonus = 0

\* every event of the transcript has been processed
TrackerDone == tournament # <<>> /\ \A w \in Weights : queues[w] = <<>>

\* C20: whatever the interleaving of the weight classes, with the order inside
\* each weight class kept, the records and their grids end as they do when the
\* events are processed in the order of the transcript
C20_WeightsIndependent ==
    TrackerDone => records = TrackAll(<<>>, tournament)

\* the events of 133 were processed before the event of 125 that precedes them
\* in the transcript
C20_Witness ==
    /\ TrackerDone
    /\ Len(tournament) = 3
    /\ tournament[1].weight = "125"
    /\ tournament[2].weight = "133"
    /\ tournament[3].weight = "133"
    /\ processed = <<tournament[2], tournament[3], tournament[1]>>
    /\ tournament[1].winner_name = tournament[2].winner_name
    /\ DOMAIN records = {Identity(n, w) : n \in {<<"John", "Smith">>, <<"Mike", "Jones">>},
                                          w \in Weights}

(* ------------------- the re-scan of the whole line --------------------- *)

\* the win phrase matches none of the seven phrase rules
NoPhraseRule(p) ==
    /\ ~IsTechFall(p) /\ ~IsMajorDecision(p) /\ ~IsFall(p) /\ ~IsDefaultOrDQ(p)
    /\ ~IsSuddenVictory(p) /\ ~IsTieBreaker(p) /\ ~IsDecision(p)

\* a line holding a sudden victory marker, "(SV-1" or "SV-2"
HasSVMarker(t) == HasWord(t, "(SV-1") \/ HasWord(t, "SV-2") \/ HasWord(t, "(SV-2")

\* a line holding a tie breaker marker, "(TB-1" or "TB-2"
HasTBMarker(t) == HasWord(t, "(TB-1") \/ HasWord(t, "TB-2") \/ HasWord(t, "(TB-2")

\* a call of _parse_win_type that fell through to the re-scan
Rescanned == pc = "classified" /\ NoPhraseRule(result.win_type_full)

\* C21: when the win phrase matches none of the seven phrase rules, a line
\* holding "(SV-1" or "SV-2" is classified SV, a line holding "(TB-1" or "TB-2"
\* and no sudden victory marker is classified TB, every other line is Other,
\* and the bonus is 0 in all three cases; so a line whose only marker is
\* written "(SV-2 ..." or "(TB-2 ..." is SV or TB.
C21_RescanByMarker ==
    Rescanned =>
        /\ result.bonus_points = 0
        /\ result.win_type =
              IF HasSVMarker(match_text) THEN "SV"
              ELSE IF HasTBMarker(match_text) THEN "TB"
              ELSE "Other"

\* a phrase of no rule on a line whose only marker is "(SV-2", classified Other
C21_Witness ==
    /\ Rescanned
    /\ HasWord(match_text, "(SV-2")
    /\ ~HasWord(match_text, "(SV-1") /\ ~HasWord(match_text, "SV-2")
    /\ result.win_type = "Other"

(* ---------------------- properties of the dashboard -------------------- *)

\* this step called fetch_tournament_data and its body ran
FetchRan == Len(fetches') = Len(fetches) + 1 /\ ~fetches'[Len(fetches')].cached

\* the package gives fetch_tournament_data nothing: it is not there, its call
\* raises or its results are empty
NoPackageResults(e) ==
    \/ ~e.package
    \/ PackageCall.kind = "raise"
    \/ (PackageCall.kind = "return" /\ Empty(PackageCall.value[1]))

C23_FirstIsPlaceholder ==
    /\ \A i \in DOMAIN fetches :
          (fetches[i].outcome.kind = "return" /\ NoPackageResults(env)) =>
              fetches[i].outcome.value[1] = "empty"
    /\ session_state.results_df \in {"absent", "empty", "results_df"}

\* without the package and with both files readable, the direct parse has
\* returned the draft roster first and it is stored as results_df
C23_Witness ==
    /\ ~env.package
    /\ env.results_file /\ env.draft_csv /\ env.readable /\ env.rows
    /\ fetches # <<>>
    /\ fetches[Len(fetches)] =
          [caller |-> "load_or_process_data", cached |-> FALSE,
           outcome |-> Returned(<<"draft_df", "empty", "empty">>), error |-> FALSE]
    /\ session_state = Stored(<<"draft_df", "empty", "empty">>, "team_summary of draft_df")

\* the session holds results a load without error has stored
HoldsResults ==
    /\ session_state.results_df # "absent"
    /\ ~Empty(session_state.results_df)
    /\ \E i \in DOMAIN fetches :
          /\ fetches[i].caller = "load_or_process_data"
          /\ ~fetches[i].error
          /\ fetches[i].outcome = Returned(<<session_state.results_df,
                                             session_state.round_df,
                                             session_state.placements_df>>)

\* this step is a script run with the update button in which processing
\* failed: an error was shown
FailedUpdate == loads' = loads + 1 /\ update_button' /\ load_error' # {}

\* C24: when processing fails during an explicit update while the session
\* holds results of an earlier successful load, the four stored tables are
\* left as they are and never replaced by empty tables
C24_FailedUpdateKeepsTables ==
    [][(HoldsResults /\ FailedUpdate) => session_state' = session_state]_vars

\* the first load stored the roster without error; the update after the
\* results file was removed failed and left four empty tables
C24_Witness ==
    /\ ~env.package /\ ~env.results_file
    /\ Len(fetches) = 2
    /\ fetches[1] = [caller |-> "load_or_process_data", cached |-> FALSE, error |-> FALSE,
                     outcome |-> Returned(<<"draft_df", "empty", "empty">>)]
    /\ fetches[2] = [caller |-> "load_or_process_data", cached |-> FALSE, error |-> TRUE,
                     outcome |-> Returned(EmptyTables)]
    /\ update_button
    /\ load_error = {"parse_data_files_directly", "load_or_process_data"}
    /\ session_state = Stored(EmptyTables, "empty")

Keys == {"results_df", "round_df", "placements_df", "team_summary"}

AllStored(state) == \A k \in Keys : state[k] # "absent"

NoneStored(state) == \A k \in Keys : state[k] = "absent"

\* C25: after every call of load_or_process_data, with or without the update
\* button, succeeding or failing, the session state holds all four keys; none
\* of the four is ever stored without the other three
C25_FourKeysTogether ==
    [][/\ AllStored(session_state') \/ NoneStored(session_state')
       /\ loads' = loads + 1 => AllStored(session_state')]_vars

\* a first script run of app.py failed without a message and stored four
\* empty tables
C25_Witness ==
    /\ loads = 1
    /\ ~update_button
    /\ load_error = {}
    /\ fetches = <<>>
    /\ AllStored(session_state)
    /\ session_state = Stored(EmptyTables, "empty")

\* C26: a script run that finds results_df stored and the update button not
\* pressed fetches nothing and leaves the four stored tables as they are; a
\* script run with the update button pressed clears the data cache before the
\* fetch, so the fetch computes the tables anew and returns no cached ones
C26_UpdateClearsCache ==
    [][/\ (loads' = loads + 1 /\ ~update_button' /\ session_state.results_df # "absent") =>
              (fetches' = fetches /\ session_state' = session_state)
       /\ (loads' = loads + 1 /\ update_button' /\ fetches' # fetches) =>
              /\ Len(fetches') = Len(fetches) + 1
              /\ ~fetches'[Len(fetches')].cached
              /\ fetches'[Len(fetches')].outcome = FetchTournamentData(env)]_vars

\* an update with tables in the cache: the second fetch ran for the files as
\* they are now, and its tables differ from the cached ones of the first
C26_Witness ==
    /\ update_button
    /\ loads = 2
    /\ Len(fetches) = 2
    /\ fetches[1].caller = "load_or_process_data"
    /\ fetches[2].caller = "load_or_process_data"
    /\ ~fetches[2].cached
    /\ fetches[2].outcome = FetchTournamentData(env)
    /\ fetches[2].outcome # fetches[1].outcome
    /\ cache = Some(fetches[2].outcome.value)

\* C28: every run of main that got as far as calling parse_wrestling_results
\* has saved the debug log and the problem cases when main returns, also when
\* generating the report or saving the result files failed
C28_LogsSavedBeforeReturn ==
    (main_pc = "returned" /\ "parse_wrestling_results" \in invoked) =>
        {"save_debug_log", "save_problem_cases"} \subseteq invoked

\* main has returned after the report failed: the results were processed and
\* neither log was saved
C28_Witness ==
    /\ main_pc = "returned"
    /\ main_failed = "generate_detailed_report"
    /\ {"parse_wrestling_results", "calculate_team_points"} \subseteq invoked
    /\ "save_debug_log" \notin invoked
    /\ "save_problem_cases" \notin invoked

(* ------------------ the tables the dashboard reads --------------------- *)

\* A table is held as the columns it has among those the function at hand
\* reads by name, and its rows over these columns. Every table with rows
\* has further columns, the name of the competitor or of the team among
\* them; pd.DataFrame() has neither columns nor rows

\* the labels of a table index: the position of a row, or an owner
PositionLabel(i) == [kind |-> "position", at |-> i]

OwnerLabel(o) == [kind |-> "owner", name |-> o]

\* a placement, for a competitor who placed
Placement == "1"

\* the values of a column: a weight class, an owner or none for a competitor
\* nobody drafted, a placement or none for a competitor who did not place
ColumnValues(c) ==
    CASE c \in {"weight", "Weight"} -> Weights
      [] c \in {"owner", "Owner"}   -> Owners \cup {NaN}
      [] c = "placement"            -> {Placement, NaN}

\* the rows of a table with the columns cols
RowsOver(cols) ==
    {r \in [cols -> Weights \cup Owners \cup {Placement, NaN}] :
        \A c \in cols : r[c] \in ColumnValues(c)}

\* the tables of up to MaxRows rows with the columns cols
TablesOver(cols) ==
    {[columns |-> cols, rows |-> rows] :
        rows \in UNION {[1..n -> RowsOver(cols)] : n \in 0..MaxRows}}

\* pd.DataFrame()
EmptyTable == [columns |-> {}, rows |-> <<>>]

\* df.empty
IsEmpty(df) == df.rows = <<>>

\* column == value, row by row: a missing value equals nothing
Eq(x, y) == x # NaN /\ y # NaN /\ x = y

\* the orders in which the members of T can be listed
Orders(T) ==
    {s \in [1..Cardinality(T) -> T] : \A i, j \in 1..Cardinality(T) : s[i] = s[j] => i = j}

(* ------------- get_filtered_results and get_filtered_rounds ------------ *)

\* the table pd.read_csv makes of the draft CSV: a roster has an owner
\* column and names the weight class weight_class; which columns a CSV has
\* is up to its header
RosterTables == UNION {TablesOver(cols) : cols \in SUBSET {"weight", "owner"}}

\* the round grid of the competitors of a results table, with its own
\* column names
RoundGrid(df) ==
    [columns |-> {"Weight", "Owner"},
     rows    |-> [i \in 1..Len(df.rows) |->
                     [Weight |-> df.rows[i].weight, Owner |-> df.rows[i].owner]]]

\* the two keys of st.session_state the filters read, as
\* load_or_process_data leaves them: absent before the first load, the
\* table of the draft CSV beside an empty round grid from the direct parse,
\* two empty tables after a failure, and the results beside the round grid
\* of the same competitors where fetch_tournament_data hands on the tables
\* of main
FilterSessions ==
    {[results_df |-> NoneVal, round_df |-> NoneVal]}
    \cup {[results_df |-> Some(df), round_df |-> Some(EmptyTable)] : df \in RosterTables}
    \cup {[results_df |-> Some(df), round_df |-> Some(RoundGrid(df))] :
            df \in {t \in TablesOver({"weight", "owner"}) : ~IsEmpty(t)}}

\* what a call leaves: its value or its exception, and st.session_state
Left(outcome, state) == [outcome |-> outcome, session_state |-> state]

\* get_filtered_results(weight_class, team): an empty table where no results
\* with rows are stored, else the rows of a copy of the stored table that pass
\* the two masks; reading a column the table does not have raises KeyError
GetFilteredResults(state, weight_class, team) ==
    IF state.results_df = NoneVal THEN Left(Returned(EmptyTable), state)
    ELSE IF IsEmpty(state.results_df[1]) THEN Left(Returned(EmptyTable), state)
    ELSE LET filtered_df == state.results_df[1]
             by_weight   == IF weight_class # "All"
                            THEN [columns |-> filtered_df.columns,
                                  rows    |-> SelectSeq(filtered_df.rows,
                                                 LAMBDA r : Eq(r.weight, weight_class))]
                            ELSE filtered_df
             by_team     == IF team # "All"
                            THEN [columns |-> by_weight.columns,
                                  rows    |-> SelectSeq(by_weight.rows,
                                                 LAMBDA r : Eq(r.owner, team))]
                            ELSE by_weight
         IN  IF weight_class # "All" /\ "weight" \notin filtered_df.columns
             THEN Left(Raised("KeyError"), state)
             ELSE IF team # "All" /\ "owner" \notin filtered_df.columns
             THEN Left(Raised("KeyError"), state)
             ELSE Left(Returned(by_team), state)

\* get_filtered_rounds(weight_class, team): the same on round_df and its
\* columns Weight and Owner
GetFilteredRounds(state, weight_class, team) ==
    IF state.round_df = NoneVal THEN Left(Returned(EmptyTable), state)
    ELSE IF IsEmpty(state.round_df[1]) THEN Left(Returned(EmptyTable), state)
    ELSE LET filtered_df == state.round_df[1]
             by_weight   == IF weight_class # "All"
                            THEN [columns |-> filtered_df.columns,
                                  rows    |-> SelectSeq(filtered_df.rows,
                                                 LAMBDA r : Eq(r.Weight, weight_class))]
                            ELSE filtered_df
             by_team     == IF team # "All"
                            THEN [columns |-> by_weight.columns,
                                  rows    |-> SelectSeq(by_weight.rows,
                                                 LAMBDA r : Eq(r.Owner, team))]
                            ELSE by_weight
         IN  IF weight_class # "All" /\ "Weight" \notin filtered_df.columns
             THEN Left(Raised("KeyError"), state)
             ELSE IF team # "All" /\ "Owner" \notin filtered_df.columns
             THEN Left(Raised("KeyError"), state)
             ELSE Left(Returned(by_team), state)

\* the teams a caller can ask for: the owners, a team without rows and the
\* missing value
Teams == Owners \cup {"Carol", NaN}

\* one call get_filtered_results(weight_class, team) in a session
GetFilteredResultsCall ==
    /\ view = NoneVal
    /\ \E state \in FilterSessions, weight_class \in Weights \cup {"All"},
          team \in Teams \cup {"All"} :
          view' = [fn            |-> "get_filtered_results",
                   session_state |-> state,
                   weight_class  |-> weight_class,
                   team          |-> team,
                   left          |-> GetFilteredResults(state, weight_class, team)]
    /\ UNCHANGED <<parserVars, runVars, mainVars, appVars, teamVars, trackerVars>>

\* one call get_filtered_rounds(weight_class, team) in a session
GetFilteredRoundsCall ==
    /\ view = NoneVal
    /\ \E state \in FilterSessions, weight_class \in Weights \cup {"All"},
          team \in Teams \cup {"All"} :
          view' = [fn            |-> "get_filtered_rounds",
                   session_state |-> state,
                   weight_class  |-> weight_class,
                   team          |-> team,
                   left          |-> GetFilteredRounds(state, weight_class, team)]
    /\ UNCHANGED <<parserVars, runVars, mainVars, appVars, teamVars, trackerVars>>

NextFilters == GetFilteredResultsCall \/ GetFilteredRoundsCall

SpecFilters == Init /\ [][NextFilters]_vars

\* the rows of a sequence at the positions S, in their order
RECURSIVE RowsAt(_, _)
RowsAt(rows, S) ==
    IF rows = <<>> THEN <<>>
    ELSE (IF Len(rows) \in S
          THEN RowsAt(SubSeq(rows, 1, Len(rows) - 1), S) \o <<rows[Len(rows)]>>
          ELSE RowsAt(SubSeq(rows, 1, Len(rows) - 1), S))

\* the rows stored under key, none where no table is stored
StoredRows(state, key) == IF state[key] = NoneVal THEN <<>> ELSE state[key][1].rows

\* the value asked for is "All", or the row has the column and its value is
\* the one asked for
Asked(r, column, wanted) ==
    wanted = "All" \/ (column \in DOMAIN r /\ r[column] # NaN /\ r[column] = wanted)

\* the stored rows of key whose weight and owner, in the columns named, are
\* those asked for
MatchingRows(state, key, weight_column, owner_column, weight_class, team) ==
    RowsAt(StoredRows(state, key),
           {i \in 1..Len(StoredRows(state, key)) :
               /\ Asked(StoredRows(state, key)[i], weight_column, weight_class)
               /\ Asked(StoredRows(state, key)[i], owner_column, team)})

\* C27: get_filtered_results(weight_class, team) returns exactly the stored
\* result rows whose weight is weight_class (every weight for "All") and whose
\* owner is team (every owner for "All"), an empty table when no results are
\* stored, and leaves st.session_state as it is; get_filtered_rounds does the
\* same for the round grid
C27_FilterExact ==
    /\ (view # NoneVal /\ view.fn = "get_filtered_results") =>
          /\ view.left.outcome.kind = "return"
          /\ view.left.outcome.value.rows =
                MatchingRows(view.session_state, "results_df", "weight", "owner",
                             view.weight_class, view.team)
          /\ view.left.session_state = view.session_state
    /\ (view # NoneVal /\ view.fn = "get_filtered_rounds") =>
          /\ view.left.outcome.kind = "return"
          /\ view.left.outcome.value.rows =
                MatchingRows(view.session_state, "round_df", "Weight", "Owner",
                             view.weight_class, view.team)
          /\ view.left.session_state = view.session_state

\* with the roster of the draft CSV stored as results_df, one row of Alice's
\* under an owner column and no weight column, get_filtered_results("125",
\* "All") has raised KeyError
C27_Witness ==
    /\ view # NoneVal
    /\ view.fn = "get_filtered_results"
    /\ view.session_state =
          [results_df |-> Some([columns |-> {"owner"}, rows |-> <<[owner |-> "Alice"]>>]),
           round_df   |-> Some(EmptyTable)]
    /\ view.weight_class = "125" /\ view.team = "All"
    /\ view.left.outcome = Raised("KeyError")

(* ------------------- the All-Americans team metric --------------------- *)

\* the columns of a team summary calculate_team_metrics reads by name
TeamMetricsColumns == {"owner", "total_points", "total_bonus"}

\* those calculate_enhanced_metrics reads by name
EnhancedMetricsColumns ==
    TeamMetricsColumns
    \cup {"champ_advancement", "champ_bonus", "cons_advancement", "cons_bonus"}

\* team summaries of one row per team with columns among names: the index
\* is the default one of the positions or the names of the teams, and the
\* owner column, where the summary has one, names the team of the row
TeamFrames(names) ==
    UNION {{[index   |-> index,
             columns |-> cols,
             owner   |-> IF "owner" \in cols THEN Some(teams) ELSE NoneVal] :
               cols \in SUBSET names,
               index \in {[i \in 1..Len(teams) |-> PositionLabel(i - 1)],
                          [i \in 1..Len(teams) |-> OwnerLabel(teams[i])]}} :
           teams \in UNION {Orders(T) : T \in SUBSET Owners}}

\* results tables with and without the owner and the placement column
MetricTables == UNION {TablesOver(cols) : cols \in SUBSET {"owner", "placement"}}

\* results_df[results_df['placement'].notna()]
Placed(rows) == SelectSeq(rows, LAMBDA r : r.placement # NaN)

\* rows.groupby('owner').size(): the number of rows of every owner; rows whose
\* owner is missing are in no group
GroupBySize(rows) ==
    [o \in {rows[i].owner : i \in 1..Len(rows)} \ {NaN} |->
        Cardinality({i \in 1..Len(rows) : rows[i].owner = o})]

\* all_americans.get(x, 0) if x in all_americans.index else 0
GetOrZero(all_americans, x) ==
    IF x.kind = "owner"
    THEN (IF x.name \in DOMAIN all_americans THEN all_americans[x.name] ELSE 0)
    ELSE 0

\* the column team_df['All-Americans']: the index of team_df mapped through
\* the group sizes of the placed rows, or 0 without a placement column
AllAmericansColumn(team_df, results) ==
    IF "placement" \in results.columns
    THEN [i \in 1..Len(team_df.index) |->
             GetOrZero(GroupBySize(Placed(results.rows)), team_df.index[i])]
    ELSE [i \in 1..Len(team_df.index) |-> 0]

\* the team summary with the columns added and the All-Americans of its rows
WithMetrics(team_df, added, results) ==
    [index         |-> team_df.index,
     columns       |-> team_df.columns \cup added,
     owner         |-> team_df.owner,
     all_americans |-> AllAmericansColumn(team_df, results)]

\* calculate_team_metrics(team_df, results_df): reading a column a table
\* does not have raises KeyError
CalculateTeamMetrics(team_df, results) ==
    IF "total_points" \notin team_df.columns THEN Raised("KeyError")
    ELSE IF "total_bonus" \notin team_df.columns THEN Raised("KeyError")
    ELSE IF "placement" \in results.columns /\ "owner" \notin results.columns
    THEN Raised("KeyError")
    ELSE Returned(WithMetrics(team_df,
                              {"Wrestlers with Points", "Pts per Wrestler", "Bonus %",
                               "All-Americans"},
                              results))

\* calculate_enhanced_metrics(team_df, results_df): the same, and the
\* championship efficiency of a summary that has the two championship columns
CalculateEnhancedMetrics(team_df, results) ==
    IF "total_points" \notin team_df.columns THEN Raised("KeyError")
    ELSE IF "total_bonus" \notin team_df.columns THEN Raised("KeyError")
    ELSE IF "placement" \in results.columns /\ "owner" \notin results.columns
    THEN Raised("KeyError")
    ELSE IF {"champ_advancement", "champ_bonus"} \subseteq team_df.columns
    THEN (IF "cons_advancement" \notin team_df.columns THEN Raised("KeyError")
          ELSE IF "cons_bonus" \notin team_df.columns THEN Raised("KeyError")
          ELSE Returned(WithMetrics(team_df,
                                    {"Wrestlers with Points", "Pts per Wrestler", "Bonus %",
                                     "All-Americans", "Champ Points", "Cons Points",
                                     "Champ Efficiency"},
                                    results)))
    ELSE Returned(WithMetrics(team_df,
                              {"Wrestlers with Points", "Pts per Wrestler", "Bonus %",
                               "All-Americans"},
                              results))

\* one call calculate_team_metrics(team_df, results_df)
CalculateTeamMetricsCall ==
    /\ view = NoneVal
    /\ \E team_df \in TeamFrames(TeamMetricsColumns), results \in MetricTables :
          view' = [fn         |-> "calculate_team_metrics",
                   team_df    |-> team_df,
                   results_df |-> results,
                   outcome    |-> CalculateTeamMetrics(team_df, results)]
    /\ UNCHANGED <<parserVars, runVars, mainVars, appVars, teamVars, trackerVars>>

\* one call calculate_enhanced_metrics(team_df, results_df)
CalculateEnhancedMetricsCall ==
    /\ view = NoneVal
    /\ \E team_df \in TeamFrames(EnhancedMetricsColumns), results \in MetricTables :
          view' = [fn         |-> "calculate_enhanced_metrics",
                   team_df    |-> team_df,
                   results_df |-> results,
                   outcome    |-> CalculateEnhancedMetrics(team_df, results)]
    /\ UNCHANGED <<parserVars, runVars, mainVars, appVars, teamVars, trackerVars>>

NextMetrics == CalculateTeamMetricsCall \/ CalculateEnhancedMetricsCall

SpecMetrics == Init /\ [][NextMetrics]_vars

\* the number of rows of owner o in the results table with a placement
PlacedCount(results, o) ==
    IF "placement" \in results.columns
    THEN Cardinality({i \in 1..Len(results.rows) :
                         results.rows[i].owner = o /\ results.rows[i].placement # NaN})
    ELSE 0

\* a call has returned the metrics of a summary with an owner column
OwnerColumnView ==
    /\ view # NoneVal
    /\ view.fn \in {"calculate_team_metrics", "calculate_enhanced_metrics"}
    /\ "owner" \in view.team_df.columns
    /\ view.outcome.kind = "return"

\* C29: for a team summary that names the team in its owner column, the
\* All-Americans metric of a team row is the number of rows of that owner in
\* the results table that have a placement
C29_AllAmericansCount ==
    OwnerColumnView =>
        \A i \in 1..Len(view.team_df.index) :
            view.outcome.value.all_americans[i] =
                PlacedCount(view.results_df, view.team_df.owner[1][i])

\* calculate_team_metrics, called with the one-row summary of Alice under
\* the default index and a results table in which one row of hers has a
\* placement, has returned 0 All-Americans for her
C29_Witness ==
    /\ OwnerColumnView
    /\ view.fn = "calculate_team_metrics"
    /\ view.team_df = [index   |-> <<PositionLabel(0)>>,
                       columns |-> {"owner", "total_points", "total_bonus"},
                       owner   |-> Some(<<"Alice">>)]
    /\ view.results_df = [columns |-> {"owner", "placement"},
                          rows    |-> <<[owner |-> "Alice", placement |-> Placement]>>]
    /\ view.outcome.value.all_americans = <<0>>

====
